---- MODULE Spec2Model ----
(***************************************************************************)
(* The hkanno line parsers (strict/parser.ts, payload_interpreter/parser), *)
(* and the document formatter built on them.                               *)
(*                                                                         *)
(* A string is a sequence of one-character strings.  The cursor state.i is *)
(* 0-based as in the source; line[i] of the source is CharAt(line, i).     *)
(***************************************************************************)
EXTENDS Integers, Sequences, FiniteSets, TLC

(***************************************************************************)
(* Strings                                                                 *)
(***************************************************************************)

\* const x = v; Body(x): v is evaluated once and x names its value
With(v, Body(_)) == CHOOSE y \in {Body(x) : x \in {v}} : TRUE

\* line[i] past the end of a JS string is undefined
Undefined == "undefined"

CharAt(line, i) == IF i >= 0 /\ i < Len(line) THEN line[i + 1] ELSE Undefined

\* String.prototype.slice(a, b) for 0 <= a
Slice(line, a, b) ==
  LET e == IF b > Len(line) THEN Len(line) ELSE b
  IN  IF a >= e THEN <<>> ELSE SubSeq(line, a + 1, e)

\* the characters /\s/ matches, among those of the alphabet
IsSpace(c) == c \in {" ", "\t", "\n", "\r"}

IsDigit(c) == c \in {"0", "1", "2", "3", "4", "5", "6", "7", "8", "9"}

DigitVal(c) ==
  CASE c = "0" -> 0 [] c = "1" -> 1 [] c = "2" -> 2 [] c = "3" -> 3
    [] c = "4" -> 4 [] c = "5" -> 5 [] c = "6" -> 6 [] c = "7" -> 7
    [] c = "8" -> 8 [] c = "9" -> 9

DigitChar(d) == <<"0", "1", "2", "3", "4", "5", "6", "7", "8", "9">>[d + 1]

UpperLetters ==
  <<"A", "B", "C", "D", "E", "F", "G", "H", "I", "J", "K", "L", "M",
    "N", "O", "P", "Q", "R", "S", "T", "U", "V", "W", "X", "Y", "Z">>

LowerLetters ==
  <<"a", "b", "c", "d", "e", "f", "g", "h", "i", "j", "k", "l", "m",
    "n", "o", "p", "q", "r", "s", "t", "u", "v", "w", "x", "y", "z">>

LowerChar(c) ==
  IF \E k \in 1..26 : UpperLetters[k] = c
  THEN LowerLetters[CHOOSE k \in 1..26 : UpperLetters[k] = c]
  ELSE c

\* String.prototype.toLowerCase
toLowerCase(s) == With(s, LAMBDA t : [k \in 1..Len(t) |-> LowerChar(t[k])])

\* String.prototype.startsWith
startsWith(s, p) == Len(s) >= Len(p) /\ SubSeq(s, 1, Len(p)) = p

\* String.prototype.includes
includes(s, p) ==
  With(s, LAMBDA t :
    \E k \in 0..(Len(t) - Len(p)) : SubSeq(t, k + 1, k + Len(p)) = p)

RECURSIVE SkipSpaces(_, _)
\* index of the first character at or after i that is not whitespace
SkipSpaces(line, i) ==
  IF i < Len(line) /\ IsSpace(line[i + 1]) THEN SkipSpaces(line, i + 1) ELSE i

RECURSIVE TrimEndLen(_, _)
TrimEndLen(s, n) ==
  IF n > 0 /\ IsSpace(s[n]) THEN TrimEndLen(s, n - 1) ELSE n

\* String.prototype.trimStart
trimStart(s) == Slice(s, SkipSpaces(s, 0), Len(s))

\* String.prototype.trim
trim(s) == Slice(s, SkipSpaces(s, 0), TrimEndLen(s, Len(s)))

RECURSIVE SplitFrom(_, _, _)
\* the pieces of s from 0-based index a on, cut at every "\n"; i scans
SplitFrom(s, a, i) ==
  IF i >= Len(s) THEN <<Slice(s, a, Len(s))>>
  ELSE IF s[i + 1] = "\n"
       THEN <<Slice(s, a, i)>> \o SplitFrom(s, i + 1, i + 1)
       ELSE SplitFrom(s, a, i + 1)

\* text.split('\n')
splitLines(text) == SplitFrom(text, 0, 0)

RECURSIVE joinWith(_, _)
\* Array.prototype.join(sep)
joinWith(parts, sep) ==
  With(parts, LAMBDA ps :
    IF Len(ps) = 0 THEN <<>>
    ELSE IF Len(ps) = 1 THEN ps[1]
    ELSE ps[1] \o sep \o joinWith(Tail(ps), sep))

(***************************************************************************)
(* Literals of the grammar                                                 *)
(***************************************************************************)

LitHash == <<"#">>
LitTrackName == <<"t", "r", "a", "c", "k", "N", "a", "m", "e", ":">>
LitTrackNameLower == <<"t", "r", "a", "c", "k", "n", "a", "m", "e", ":">>
LitAnimRotation == <<"a", "n", "i", "m", "r", "o", "t", "a", "t", "i", "o", "n">>
LitAnimMotion == <<"a", "n", "i", "m", "m", "o", "t", "i", "o", "n">>
LitIFrame ==
  <<"S", "p", "e", "c", "i", "a", "l", "F", "r", "a", "m", "e", "s", "_",
    "I", "n", "v", "i", "n", "c", "i", "b", "l", "e">>
LitIFrameLower == toLowerCase(LitIFrame)
LitPieLower == <<"p", "i", "e">>

(***************************************************************************)
(* Numbers.  A JS number is NaN, an infinity, or a finite value kept as an *)
(* exact decimal: 0.d1d2...dn * 10^pt with d1 # 0 and dn # 0 (mant = <<>>  *)
(* is zero, and neg distinguishes -0).  The numerals of the input alphabet *)
(* are short, so the nearest double rounds like the decimal it stands for. *)
(***************************************************************************)

NaNValue == [t |-> "nan", neg |-> FALSE, mant |-> <<>>, pt |-> 0]
InfValue(neg) == [t |-> "inf", neg |-> neg, mant |-> <<>>, pt |-> 0]
FinValue(neg, mant, pt) == [t |-> "fin", neg |-> neg, mant |-> mant, pt |-> pt]

IsSign(c) == c = "+" \/ c = "-"

RECURSIVE LeadingZerosFrom(_, _)
\* the number of zeros of ds from index k on, up to the first other digit
LeadingZerosFrom(ds, k) ==
  IF k <= Len(ds) /\ ds[k] = 0 THEN 1 + LeadingZerosFrom(ds, k + 1) ELSE 0

RECURSIVE LastNonZero(_, _)
\* the index of the last digit of ds[1..n] that is not zero, or 0
LastNonZero(ds, n) ==
  IF n > 0 /\ ds[n] = 0 THEN LastNonZero(ds, n - 1) ELSE n

RECURSIVE DecVal(_, _)
\* the value of the digits ds[1..n]
DecVal(ds, n) == IF n = 0 THEN 0 ELSE 10 * DecVal(ds, n - 1) + ds[n]

\* the value of an exponent's digits; past four digits the result is
\* already an infinity or a zero, so the value saturates
ExpVal(ds) ==
  With(SubSeq(ds, LeadingZerosFrom(ds, 1) + 1, Len(ds)), LAMBDA sig :
    IF Len(sig) > 4 THEN 9999 ELSE DecVal(sig, Len(sig)))

\* doubles overflow to Infinity past 1.79e308 and underflow to 0 below 4.9e-324
Ranged(neg, mant, pt) ==
  IF mant = <<>> THEN FinValue(neg, <<>>, 0)
  ELSE IF pt - 1 >= 309 THEN InfValue(neg)
  ELSE IF pt - 1 <= -325 THEN FinValue(neg, <<>>, 0)
  ELSE FinValue(neg, mant, pt)

Digits(str) == [k \in 1..Len(str) |-> DigitVal(str[k])]

\* StrDecimalLiteral: digits with at most one ".", at least one digit
MantissaOK(mantStr) ==
  /\ \A k \in 1..Len(mantStr) : IsDigit(mantStr[k]) \/ mantStr[k] = "."
  /\ Cardinality({k \in 1..Len(mantStr) : mantStr[k] = "."}) <= 1
  /\ \E k \in 1..Len(mantStr) : IsDigit(mantStr[k])

\* ExponentPart after the e: an optional sign and at least one digit
ExponentOK(expStr) ==
  With(IF Len(expStr) > 0 /\ IsSign(expStr[1]) THEN Tail(expStr) ELSE expStr,
       LAMBDA expBody :
    /\ Len(expBody) >= 1
    /\ \A k \in 1..Len(expBody) : IsDigit(expBody[k]))

\* the value of a well-formed mantissa and exponent
Decimal(neg, mantStr, expStr) ==
  With(IF \E k \in 1..Len(mantStr) : mantStr[k] = "."
       THEN CHOOSE k \in 1..Len(mantStr) : mantStr[k] = "."
       ELSE Len(mantStr) + 1, LAMBDA dot :
  With(Digits(SubSeq(mantStr, 1, dot - 1) \o SubSeq(mantStr, dot + 1, Len(mantStr))),
       LAMBDA all :
  With(LeadingZerosFrom(all, 1), LAMBDA lead :
  With(IF Len(expStr) > 0 /\ IsSign(expStr[1]) THEN Tail(expStr) ELSE expStr,
       LAMBDA expBody :
  With(ExpVal(Digits(expBody)), LAMBDA e :
    Ranged(neg,
           SubSeq(all, lead + 1, LastNonZero(all, Len(all))),
           dot - 1 - lead
             + (IF Len(expStr) > 0 /\ expStr[1] = "-" THEN 0 - e ELSE e)))))))

\* Number(str): StringToNumber on a string without whitespace
Number(str) ==
  With(str, LAMBDA s :
  With(IF Len(s) > 0 /\ IsSign(s[1]) THEN Tail(s) ELSE s, LAMBDA body :
  With({k \in 1..Len(body) : body[k] = "e" \/ body[k] = "E"}, LAMBDA ePoss :
  With(IF ePoss = {} THEN Len(body) + 1
       ELSE CHOOSE k \in ePoss : \A m \in ePoss : k <= m, LAMBDA ePos :
    IF s = <<>> THEN FinValue(FALSE, <<>>, 0)
    ELSE IF body = <<"I", "n", "f", "i", "n", "i", "t", "y">>
    THEN InfValue(s[1] = "-")
    ELSE IF /\ MantissaOK(SubSeq(body, 1, ePos - 1))
            /\ ePoss = {} \/ ExponentOK(SubSeq(body, ePos + 1, Len(body)))
    THEN Decimal(s[1] = "-", SubSeq(body, 1, ePos - 1),
                 SubSeq(body, ePos + 1, Len(body)))
    ELSE NaNValue))))

RECURSIVE IncDigits(_, _)
\* the digits of n + 1, n the number of the digits ds[1..len]
IncDigits(ds, len) ==
  IF len = 0 THEN <<1>>
  ELSE IF ds[len] < 9 THEN SubSeq(ds, 1, len - 1) \o <<ds[len] + 1>>
  ELSE IncDigits(ds, len - 1) \o <<0>>

RECURSIVE IntDigits(_)
IntDigits(n) == IF n < 10 THEN <<n>> ELSE IntDigits(n \div 10) \o <<n % 10>>

DigitChars(ds) == [k \in 1..Len(ds) |-> DigitChar(ds[k])]

Zeros(n) == [k \in 1..n |-> 0]

\* Number::toString of a finite value at or above 1e21
toExponential(v) ==
  (IF v.neg THEN <<"-">> ELSE <<>>)
    \o <<DigitChar(v.mant[1])>>
    \o (IF Len(v.mant) > 1 THEN <<".">> \o DigitChars(Tail(v.mant)) ELSE <<>>)
    \o <<"e", "+">> \o DigitChars(IntDigits(v.pt - 1))

\* the digits of round(x * 10^6) for 0 <= x < 1e21, at least seven of them
FixedDigits(v) ==
  With(v.pt + 6, LAMBDA k :
  With(IF k <= 0 THEN <<>>
       ELSE IF Len(v.mant) >= k THEN SubSeq(v.mant, 1, k)
       ELSE v.mant \o Zeros(k - Len(v.mant)), LAMBDA head :
  With(IF k >= 0 /\ Len(v.mant) > k /\ v.mant[k + 1] >= 5
       THEN IncDigits(head, Len(head)) ELSE head, LAMBDA n :
    IF Len(n) < 7 THEN Zeros(7 - Len(n)) \o n ELSE n)))

\* Number.prototype.toFixed(6)
toFixed6(v) ==
  IF v.t = "nan" THEN <<"N", "a", "N">>
  ELSE IF v.t = "inf"
  THEN (IF v.neg THEN <<"-">> ELSE <<>>) \o <<"I", "n", "f", "i", "n", "i", "t", "y">>
  ELSE IF v.mant # <<>> /\ v.pt >= 22 THEN toExponential(v)
  ELSE With(FixedDigits(v), LAMBDA padded :
         (IF v.neg /\ v.mant # <<>> THEN <<"-">> ELSE <<>>)
           \o DigitChars(SubSeq(padded, 1, Len(padded) - 6))
           \o <<".">> \o DigitChars(SubSeq(padded, Len(padded) - 5, Len(padded))))

(***************************************************************************)
(* Primitive field parsers.  Each takes the parser state and returns the  *)
(* token it produced together with the state it leaves (the source        *)
(* mutates state.i in place).                                              *)
(***************************************************************************)

\* an undefined field or whitespace token
Absent == [present |-> FALSE]

\* makePos with the end column of the last character, not the one past it
makePosInclusive(lineNumber, start, end) ==
  [line |-> lineNumber, startColumn |-> start + 1, endColumn |-> end]

makePos(lineNumber, start, end) ==
  [line |-> lineNumber, startColumn |-> start + 1, endColumn |-> end + 1]

NewState(line, lineNumber) ==
  [line |-> line, i |-> 0, lineNumber |-> lineNumber, len |-> Len(line)]

At(state, i) == [state EXCEPT !.i = i]

Field(value, pos) == [present |-> TRUE, value |-> value, pos |-> pos]

parseSpace(state) ==
  With(SkipSpaces(state.line, state.i), LAMBDA end :
    IF end > state.i
    THEN [tok |-> [present |-> TRUE, kind |-> "space",
                   rawText |-> Slice(state.line, state.i, end),
                   pos |-> makePos(state.lineNumber, state.i, end)],
          state |-> At(state, end)]
    ELSE [tok |-> Absent, state |-> state])

RECURSIVE SkipDigitsDots(_, _)
SkipDigitsDots(line, i) ==
  IF i < Len(line) /\ (IsDigit(line[i + 1]) \/ line[i + 1] = ".")
  THEN SkipDigitsDots(line, i + 1) ELSE i

RECURSIVE SkipDigits(_, _)
SkipDigits(line, i) ==
  IF i < Len(line) /\ IsDigit(line[i + 1]) THEN SkipDigits(line, i + 1) ELSE i

\* NumberEnd stepping over the character after the e whatever it is
NumberEndSignAssumed(state) ==
  With(IF IsSign(CharAt(state.line, state.i)) THEN state.i + 1 ELSE state.i,
       LAMBDA i1 :
  With(SkipDigitsDots(state.line, i1), LAMBDA i2 :
    IF i2 < state.len /\ CharAt(state.line, i2) \in {"e", "E"}
    THEN SkipDigits(state.line, i2 + 2)
    ELSE i2))

\* the cursor after the sign, the digits and dots, and the exponent
NumberEnd(state) ==
  With(IF IsSign(CharAt(state.line, state.i)) THEN state.i + 1 ELSE state.i,
       LAMBDA i1 :
  With(SkipDigitsDots(state.line, i1), LAMBDA i2 :
    IF i2 < state.len /\ CharAt(state.line, i2) \in {"e", "E"}
    THEN SkipDigits(state.line,
                    IF IsSign(CharAt(state.line, i2 + 1)) THEN i2 + 2 ELSE i2 + 1)
    ELSE i2))

\* parseNumberField returning undefined for a str that is no number, with the
\* cursor left after it
parseNumberFieldDroppingNaN(state) ==
  IF state.i >= state.len THEN [tok |-> Absent, state |-> state]
  ELSE With(NumberEnd(state), LAMBDA end :
       With(Slice(state.line, state.i, end), LAMBDA str :
         IF str = <<>> THEN [tok |-> Absent, state |-> state]
         ELSE IF Number(str).t = "nan"
         THEN [tok |-> Absent, state |-> At(state, end)]
         ELSE [tok |-> Field(Number(str), makePos(state.lineNumber, state.i, end)),
               state |-> At(state, end)]))

parseNumberField(state) ==
  IF state.i >= state.len THEN [tok |-> Absent, state |-> state]
  ELSE With(NumberEnd(state), LAMBDA end :
       With(Slice(state.line, state.i, end), LAMBDA str :
         IF str = <<>> THEN [tok |-> Absent, state |-> state]
         ELSE [tok |-> Field(Number(str), makePos(state.lineNumber, state.i, end)),
               state |-> At(state, end)]))

parseLiteralField(state, literal) ==
  IF Slice(state.line, state.i, state.i + Len(literal)) = literal
  THEN [tok |-> Field(literal,
                      makePos(state.lineNumber, state.i, state.i + Len(literal))),
        state |-> At(state, state.i + Len(literal))]
  ELSE [tok |-> Absent, state |-> state]

RECURSIVE SkipUntil(_, _, _)
SkipUntil(line, i, stopChars) ==
  IF i < Len(line) /\ line[i + 1] \notin stopChars
  THEN SkipUntil(line, i + 1, stopChars) ELSE i

\* parseFieldUntil leaving the whitespace that ends the field unconsumed
parseFieldUntilTrimmed(state, stopChars) ==
  With(SkipUntil(state.line, state.i, stopChars), LAMBDA stop :
  With(state.i + TrimEndLen(Slice(state.line, state.i, stop), stop - state.i),
       LAMBDA end :
    IF end = state.i THEN [tok |-> Absent, state |-> state]
    ELSE [tok |-> Field(Slice(state.line, state.i, end),
                        makePos(state.lineNumber, state.i, end)),
          state |-> At(state, end)]))

\* stopChars is the set of the characters of the source's stop string
parseFieldUntil(state, stopChars) ==
  With(SkipUntil(state.line, state.i, stopChars), LAMBDA end :
    IF end = state.i THEN [tok |-> Absent, state |-> state]
    ELSE [tok |-> Field(Slice(state.line, state.i, end),
                        makePos(state.lineNumber, state.i, end)),
          state |-> At(state, end)])

(***************************************************************************)
(* Node parsers.  Every ...Run operator is the body of the node parser of  *)
(* the same name: it returns the node and, beside it, the value state.i    *)
(* had before the first primitive and after each one (cursors).            *)
(***************************************************************************)

parseCommentRun(line, lineNumber) ==
  With(parseSpace(NewState(line, lineNumber)), LAMBDA r1 :
  With(parseLiteralField(r1.state, LitHash), LAMBDA r2 :
  With(parseSpace(r2.state), LAMBDA r3 :
  With(parseFieldUntil(r3.state, {"\n"}), LAMBDA r4 :
  With(parseSpace(r4.state), LAMBDA r5 :
    [node |-> [kind |-> "comment",
               space0First |-> r1.tok,
               hash |-> r2.tok,
               space0HashToComment |-> r3.tok,
               comment |-> r4.tok,
               space0AfterComment |-> r5.tok],
     cursors |-> <<0, r1.state.i, r2.state.i, r3.state.i, r4.state.i,
                   r5.state.i>>])))))

parseCommentLine(line, lineNumber) == parseCommentRun(line, lineNumber).node

parseTrackNameRun(line, lineNumber) ==
  With(parseSpace(NewState(line, lineNumber)), LAMBDA r1 :
  With(parseLiteralField(r1.state, LitTrackName), LAMBDA r2 :
  With(parseSpace(r2.state), LAMBDA r3 :
  With(parseFieldUntil(r3.state, {"\n"}), LAMBDA r4 :
  With(parseSpace(r4.state), LAMBDA r5 :
    [node |-> [kind |-> "trackName",
               space0First |-> r1.tok,
               literal |-> r2.tok,
               space0LiteralToName |-> r3.tok,
               name |-> IF r4.tok.present
                        THEN [r4.tok EXCEPT !.value = trim(r4.tok.value)]
                        ELSE r4.tok,
               space0AfterName |-> r5.tok],
     cursors |-> <<0, r1.state.i, r2.state.i, r3.state.i, r4.state.i,
                   r5.state.i>>])))))

parseTrackNameLine(line, lineNumber) == parseTrackNameRun(line, lineNumber).node

parseTextRun(line, lineNumber) ==
  With(parseSpace(NewState(line, lineNumber)), LAMBDA r1 :
  With(parseNumberField(r1.state), LAMBDA r2 :
  With(parseSpace(r2.state), LAMBDA r3 :
  With(parseFieldUntil(r3.state, {"\n"}), LAMBDA r4 :
  With(parseSpace(r4.state), LAMBDA r5 :
    [node |-> [kind |-> "text",
               space0First |-> r1.tok,
               time |-> r2.tok,
               space1TimeToText |-> r3.tok,
               text |-> r4.tok,
               space0AfterText |-> r5.tok],
     cursors |-> <<0, r1.state.i, r2.state.i, r3.state.i, r4.state.i,
                   r5.state.i>>])))))

parseTextLine(line, lineNumber) == parseTextRun(line, lineNumber).node

parseAnimMotionRun(line, lineNumber) ==
  With(parseSpace(NewState(line, lineNumber)), LAMBDA r1 :
  With(parseNumberField(r1.state), LAMBDA r2 :
  With(parseSpace(r2.state), LAMBDA r3 :
  With(parseLiteralField(r3.state, LitAnimMotion), LAMBDA r4 :
  With(parseSpace(r4.state), LAMBDA r5 :
  With(parseNumberField(r5.state), LAMBDA r6 :
  With(parseSpace(r6.state), LAMBDA r7 :
  With(parseNumberField(r7.state), LAMBDA r8 :
  With(parseSpace(r8.state), LAMBDA r9 :
  With(parseNumberField(r9.state), LAMBDA r10 :
  With(parseSpace(r10.state), LAMBDA r11 :
    [node |-> [kind |-> "motion",
               space0First |-> r1.tok,
               time |-> r2.tok,
               space1TimeToEvent |-> r3.tok,
               event |-> r4.tok,
               space1EventToX |-> r5.tok,
               x |-> r6.tok,
               space1XToY |-> r7.tok,
               y |-> r8.tok,
               space1YToZ |-> r9.tok,
               z |-> r10.tok,
               space0AfterZ |-> r11.tok],
     cursors |-> <<0, r1.state.i, r2.state.i, r3.state.i, r4.state.i,
                   r5.state.i, r6.state.i, r7.state.i, r8.state.i,
                   r9.state.i, r10.state.i, r11.state.i>>])))))))))))

parseAnimMotionLine(line, lineNumber) == parseAnimMotionRun(line, lineNumber).node

\* parseAnimRotationLine returning at the first absent mandatory whitespace
parseAnimRotationAborting(line, lineNumber) ==
  With(parseSpace(NewState(line, lineNumber)), LAMBDA r1 :
  With(parseNumberField(r1.state), LAMBDA r2 :
  With(parseSpace(r2.state), LAMBDA r3 :
  With(IF r3.tok.present THEN parseLiteralField(r3.state, LitAnimRotation)
       ELSE [tok |-> Absent, state |-> r3.state], LAMBDA r4 :
  With(IF r3.tok.present THEN parseSpace(r4.state)
       ELSE [tok |-> Absent, state |-> r4.state], LAMBDA r5 :
  With(IF r3.tok.present /\ r5.tok.present THEN parseNumberField(r5.state)
       ELSE [tok |-> Absent, state |-> r5.state], LAMBDA r6 :
  With(IF r3.tok.present /\ r5.tok.present THEN parseSpace(r6.state)
       ELSE [tok |-> Absent, state |-> r6.state], LAMBDA r7 :
    [node |-> [kind |-> "rotation",
               space0First |-> r1.tok,
               time |-> r2.tok,
               space1TimeToEvent |-> r3.tok,
               event |-> r4.tok,
               space1EventToDegrees |-> r5.tok,
               degrees |-> r6.tok,
               space0AfterDegrees |-> r7.tok],
     cursors |-> <<0, r1.state.i, r2.state.i, r3.state.i, r4.state.i,
                   r5.state.i, r6.state.i, r7.state.i>>])))))))

parseAnimRotationRun(line, lineNumber) ==
  With(parseSpace(NewState(line, lineNumber)), LAMBDA r1 :
  With(parseNumberField(r1.state), LAMBDA r2 :
  With(parseSpace(r2.state), LAMBDA r3 :
  With(parseLiteralField(r3.state, LitAnimRotation), LAMBDA r4 :
  With(parseSpace(r4.state), LAMBDA r5 :
  With(parseNumberField(r5.state), LAMBDA r6 :
  With(parseSpace(r6.state), LAMBDA r7 :
    [node |-> [kind |-> "rotation",
               space0First |-> r1.tok,
               time |-> r2.tok,
               space1TimeToEvent |-> r3.tok,
               event |-> r4.tok,
               space1EventToDegrees |-> r5.tok,
               degrees |-> r6.tok,
               space0AfterDegrees |-> r7.tok],
     cursors |-> <<0, r1.state.i, r2.state.i, r3.state.i, r4.state.i,
                   r5.state.i, r6.state.i, r7.state.i>>])))))))

parseAnimRotationLine(line, lineNumber) ==
  parseAnimRotationRun(line, lineNumber).node

(***************************************************************************)
(* JSON.parse, on texts over the alphabet: the grammar of ECMA-404 without *)
(* \u escapes.  A decoded value is a record tagged by t.                   *)
(***************************************************************************)

JsonFail == [ok |-> FALSE, i |-> 0, v |-> [t |-> "undefined"]]
JsonOk(i, v) == [ok |-> TRUE, i |-> i, v |-> v]

SimpleEscapes == {"\"", "\\", "/", "b", "f", "n", "r", "t"}

RECURSIVE jsonStringEnd(_, _)
\* index of the closing quote of a string whose body starts at i, or -1
jsonStringEnd(s, i) ==
  IF i >= Len(s) THEN 0 - 1
  ELSE IF s[i + 1] = "\"" THEN i
  ELSE IF s[i + 1] \in {"\t", "\n", "\r"} THEN 0 - 1
  ELSE IF s[i + 1] = "\\"
       THEN IF CharAt(s, i + 1) \in SimpleEscapes
            THEN jsonStringEnd(s, i + 2) ELSE 0 - 1
       ELSE jsonStringEnd(s, i + 1)

jsonString(s, i) ==
  IF CharAt(s, i) # "\"" THEN JsonFail
  ELSE With(jsonStringEnd(s, i + 1), LAMBDA end :
         IF end >= 0
         THEN JsonOk(end + 1, [t |-> "string", s |-> Slice(s, i + 1, end)])
         ELSE JsonFail)

\* -? (0 | [1-9][0-9]*) (. [0-9]+)? ([eE] [+-]? [0-9]+)?
jsonNumber(s, i) ==
  With(IF CharAt(s, i) = "-" THEN i + 1 ELSE i, LAMBDA i1 :
  With(IF CharAt(s, i1) = "0" THEN i1 + 1 ELSE SkipDigits(s, i1), LAMBDA i2 :
  With(IF CharAt(s, i2) = "." THEN SkipDigits(s, i2 + 1) ELSE i2, LAMBDA f :
  With(IF CharAt(s, f) \in {"e", "E"}
       THEN (IF IsSign(CharAt(s, f + 1)) THEN f + 2 ELSE f + 1)
       ELSE f, LAMBDA e0 :
  With(IF e0 > f THEN SkipDigits(s, e0) ELSE f, LAMBDA e :
    IF i2 > i1 /\ (f = i2 \/ f > i2 + 1) /\ (e0 = f \/ e > e0)
    THEN JsonOk(e, [t |-> "number", num |-> Number(Slice(s, i, e))])
    ELSE JsonFail)))))

JsonTrue == <<"t", "r", "u", "e">>
JsonFalse == <<"f", "a", "l", "s", "e">>
JsonNull == <<"n", "u", "l", "l">>

RECURSIVE jsonValue(_, _)
RECURSIVE jsonMembers(_, _, _, _)
RECURSIVE jsonElements(_, _, _)

\* the members of an object after "{" or ",", i at the key's opening quote
jsonMembers(s, i, keys, vals) ==
  With(jsonString(s, i), LAMBDA k :
    IF ~k.ok \/ CharAt(s, SkipSpaces(s, k.i)) # ":" THEN JsonFail
    ELSE With(jsonValue(s, SkipSpaces(s, SkipSpaces(s, k.i) + 1)), LAMBDA v :
         With(SkipSpaces(s, v.i), LAMBDA n :
           IF ~v.ok THEN JsonFail
           ELSE IF CharAt(s, n) = "}"
           THEN JsonOk(n + 1, [t |-> "object", keys |-> Append(keys, k.v.s),
                               vals |-> Append(vals, v.v)])
           ELSE IF CharAt(s, n) = ","
           THEN With(<<Append(keys, k.v.s), Append(vals, v.v)>>, LAMBDA kv :
                  jsonMembers(s, SkipSpaces(s, n + 1), kv[1], kv[2]))
           ELSE JsonFail)))

\* the elements of an array after "[" or ",", i at the element
jsonElements(s, i, items) ==
  With(jsonValue(s, i), LAMBDA v :
  With(SkipSpaces(s, v.i), LAMBDA n :
    IF ~v.ok THEN JsonFail
    ELSE IF CharAt(s, n) = "]"
    THEN JsonOk(n + 1, [t |-> "array", items |-> Append(items, v.v)])
    ELSE IF CharAt(s, n) = ","
    THEN With(Append(items, v.v), LAMBDA its :
           jsonElements(s, SkipSpaces(s, n + 1), its))
    ELSE JsonFail))

jsonValue(s, i) ==
  With(<<CharAt(s, i), SkipSpaces(s, i + 1)>>, LAMBDA cn :
    IF cn[1] = "{"
    THEN IF CharAt(s, cn[2]) = "}"
         THEN JsonOk(cn[2] + 1, [t |-> "object", keys |-> <<>>, vals |-> <<>>])
         ELSE jsonMembers(s, cn[2], <<>>, <<>>)
    ELSE IF cn[1] = "["
    THEN IF CharAt(s, cn[2]) = "]"
         THEN JsonOk(cn[2] + 1, [t |-> "array", items |-> <<>>])
         ELSE jsonElements(s, cn[2], <<>>)
    ELSE IF cn[1] = "\"" THEN jsonString(s, i)
    ELSE IF cn[1] = "-" \/ IsDigit(cn[1]) THEN jsonNumber(s, i)
    ELSE IF Slice(s, i, i + 4) = JsonTrue THEN JsonOk(i + 4, [t |-> "true"])
    ELSE IF Slice(s, i, i + 5) = JsonFalse THEN JsonOk(i + 5, [t |-> "false"])
    ELSE IF Slice(s, i, i + 4) = JsonNull THEN JsonOk(i + 4, [t |-> "null"])
    ELSE JsonFail)

\* JSON.parse: the decoded data, or a thrown SyntaxError
JSONparse(text) ==
  With(jsonValue(text, SkipSpaces(text, 0)), LAMBDA r :
    IF r.ok /\ SkipSpaces(text, r.i) = Len(text)
    THEN [threw |-> FALSE, data |-> r.v]
    ELSE [threw |-> TRUE, error |-> "SyntaxError"])

\* tryParseJson without its try/catch: the SyntaxError leaves the call
tryParseJsonUncaught(value) ==
  With(JSONparse(value), LAMBDA r :
    IF r.threw THEN [thrown |-> TRUE, success |-> FALSE, error |-> r.error]
    ELSE [thrown |-> FALSE, success |-> TRUE, data |-> r.data])

\* thrown tells an exception that leaves the call from a returned result
tryParseJson(value) ==
  With(JSONparse(value), LAMBDA r :
    IF r.threw THEN [thrown |-> FALSE, success |-> FALSE, error |-> r.error]
    ELSE [thrown |-> FALSE, success |-> TRUE, data |-> r.data])

\* the outcome of a parse call that an exception left
Raised == [node |-> [kind |-> "exception"], cursors |-> <<>>]

\* a field whose value was set to undefined
UndefinedValue == [t |-> "undefined"]

\* the decode block dropping the error message of a failed decode
decodeJsonSilent(field) ==
  IF ~field.present
  THEN [thrown |-> FALSE, json |-> Absent, jsonParseError |-> Absent]
  ELSE With(tryParseJson(field.value), LAMBDA result :
         IF result.thrown
         THEN [thrown |-> TRUE, json |-> Absent, jsonParseError |-> Absent]
         ELSE IF result.success
         THEN [thrown |-> FALSE,
               json |-> [field EXCEPT !.value = result.data],
               jsonParseError |-> Absent]
         ELSE [thrown |-> FALSE,
               json |-> [field EXCEPT !.value = UndefinedValue],
               jsonParseError |-> Absent])

\* the json field and the jsonParseError the decode result leaves
decodeJson(field) ==
  IF ~field.present
  THEN [thrown |-> FALSE, json |-> Absent, jsonParseError |-> Absent]
  ELSE With(tryParseJson(field.value), LAMBDA result :
         IF result.thrown
         THEN [thrown |-> TRUE, json |-> Absent, jsonParseError |-> Absent]
         ELSE IF result.success
         THEN [thrown |-> FALSE,
               json |-> [field EXCEPT !.value = result.data],
               jsonParseError |-> Absent]
         ELSE [thrown |-> FALSE,
               json |-> [field EXCEPT !.value = UndefinedValue],
               jsonParseError |-> IF result.error # ""
                                  THEN [present |-> TRUE, message |-> result.error]
                                  ELSE Absent])

parseIFrameRun(line, lineNumber) ==
  With(parseSpace(NewState(line, lineNumber)), LAMBDA r1 :
  With(parseNumberField(r1.state), LAMBDA r2 :
  With(parseSpace(r2.state), LAMBDA r3 :
  With(parseLiteralField(r3.state, LitIFrame), LAMBDA r4 :
  With(parseFieldUntil(r4.state, {"\n"}), LAMBDA r5 :
  With(decodeJson(r5.tok), LAMBDA decoded :
  With(parseSpace(r5.state), LAMBDA r6 :
    IF decoded.thrown THEN Raised
    ELSE [node |-> [kind |-> "iframe",
                    space0First |-> r1.tok,
                    time |-> r2.tok,
                    space1TimeToEvent |-> r3.tok,
                    event |-> r4.tok,
                    json |-> decoded.json,
                    jsonParseError |-> decoded.jsonParseError,
                    space0AfterJson |-> r6.tok],
          cursors |-> <<0, r1.state.i, r2.state.i, r3.state.i, r4.state.i,
                        r5.state.i, r6.state.i>>])))))))

parseIFrameLine(line, lineNumber) == parseIFrameRun(line, lineNumber).node

(***************************************************************************)
(* Payload instruction lines: <time> <event>.<prefix><name>|<param>|...    *)
(***************************************************************************)

\* the separator step of one loop iteration
parseSeparator(state) ==
  IF CharAt(state.line, state.i) = "|"
  THEN [tok |-> Field("|", makePos(state.lineNumber, state.i, state.i + 1)),
        state |-> At(state, state.i + 1)]
  ELSE [tok |-> Absent, state |-> state]

RECURSIVE paramLoopSkipEmpty(_)
\* the while loop pushing an item only when it has a value
paramLoopSkipEmpty(state) ==
  IF ~(state.i < state.len)
  THEN [items |-> <<>>, state |-> state, cursors |-> <<>>]
  ELSE With(parseSeparator(state), LAMBDA rs :
       With(parseFieldUntil(rs.state, {"|"}), LAMBDA rv :
       With(paramLoopSkipEmpty(rv.state), LAMBDA rest :
         [items |-> (IF rv.tok.present
                     THEN <<[separator |-> rs.tok, value |-> rv.tok]>>
                     ELSE <<>>) \o rest.items,
          state |-> rest.state,
          cursors |-> <<rs.state.i, rv.state.i>> \o rest.cursors])))

\* one iteration that records the separator without state.i++
loopIterationNoAdvance(state) ==
  With(parseSeparator(state), LAMBDA rs :
  With(parseFieldUntil(state, {"|"}), LAMBDA rv :
    [item |-> [separator |-> rs.tok, value |-> rv.tok],
     state |-> rv.state,
     cursors |-> <<state.i, rv.state.i>>]))

\* one iteration of the while loop: the item it pushes, the state it
\* leaves, and the cursor after the separator step and after the value step
loopIteration(state) ==
  With(parseSeparator(state), LAMBDA rs :
  With(parseFieldUntil(rs.state, {"|"}), LAMBDA rv :
    [item |-> [separator |-> rs.tok, value |-> rv.tok],
     state |-> rv.state,
     cursors |-> <<rs.state.i, rv.state.i>>]))

RECURSIVE paramLoop(_)
\* the while loop over the parameters: the items it pushes, the state it
\* leaves, and the cursors of its iterations
paramLoop(state) ==
  IF ~(state.i < state.len)
  THEN [items |-> <<>>, state |-> state, cursors |-> <<>>]
  ELSE With(loopIteration(state), LAMBDA it :
       With(paramLoop(it.state), LAMBDA rest :
         [items |-> <<it.item>> \o rest.items,
          state |-> rest.state,
          cursors |-> it.cursors \o rest.cursors]))

\* the parameters node with the "|" after the name consumed ahead of the loop
parseParametersBarAhead(state) ==
  IF state.i < state.len /\ CharAt(state.line, state.i) = "|"
  THEN With(paramLoop(At(state, state.i + 1)), LAMBDA loop :
         [tok |-> [present |-> TRUE, kind |-> "parameters",
                   items |-> loop.items,
                   pos |-> makePos(state.lineNumber, state.i, loop.state.i)],
          state |-> loop.state,
          cursors |-> loop.cursors])
  ELSE [tok |-> Absent, state |-> state, cursors |-> <<>>]

\* the parameters node, when a "|" follows the instruction name
parseParameters(state) ==
  IF state.i < state.len /\ CharAt(state.line, state.i) = "|"
  THEN With(paramLoop(state), LAMBDA loop :
         [tok |-> [present |-> TRUE, kind |-> "parameters",
                   items |-> loop.items,
                   pos |-> makePos(state.lineNumber, state.i, loop.state.i)],
          state |-> loop.state,
          cursors |-> loop.cursors])
  ELSE [tok |-> Absent, state |-> state, cursors |-> <<>>]

PrefixChars == {"@", "$", "!"}

\* the instruction node, when a prefix character is at the cursor
parseInstruction(state) ==
  IF CharAt(state.line, state.i) \in PrefixChars
  THEN With(parseFieldUntil(At(state, state.i + 1), {"|"}), LAMBDA rn :
       With(parseParameters(rn.state), LAMBDA rp :
         [tok |-> [present |-> TRUE, kind |-> "instruction",
                   prefix |-> Field(CharAt(state.line, state.i),
                                    makePos(state.lineNumber, state.i, state.i + 1)),
                   name |-> rn.tok,
                   parameters |-> rp.tok],
          state |-> rp.state,
          cursors |-> <<state.i + 1, rn.state.i>> \o rp.cursors]))
  ELSE [tok |-> Absent, state |-> state, cursors |-> <<>>]

\* the dot step leaving the "." where it is
parseDotKept(state) == [tok |-> Absent, state |-> state]

\* the dot step
parseDot(state) ==
  IF CharAt(state.line, state.i) = "."
  THEN [tok |-> Field(".", makePos(state.lineNumber, state.i, state.i + 1)),
        state |-> At(state, state.i + 1)]
  ELSE [tok |-> Absent, state |-> state]

\* parsePayloadInstructionLine down to the guard of the while loop: the
\* state there, the cursors so far, and whether the loop is entered
parseUpToLoop(line, lineNumber) ==
  With(parseSpace(NewState(line, lineNumber)), LAMBDA r1 :
  With(parseNumberField(r1.state), LAMBDA r2 :
  With(parseSpace(r2.state), LAMBDA r3 :
  With(parseFieldUntil(r3.state, {"."}), LAMBDA r4 :
  With(parseDot(r4.state), LAMBDA r5 :
  With(IF CharAt(line, r5.state.i) \in PrefixChars
       THEN parseFieldUntil(At(r5.state, r5.state.i + 1), {"|"})
       ELSE [tok |-> Absent, state |-> r5.state], LAMBDA r6 :
    [state |-> r6.state,
     cursors |-> <<0, r1.state.i, r2.state.i, r3.state.i, r4.state.i,
                   r5.state.i, r6.state.i>>,
     enters |-> /\ CharAt(line, r5.state.i) \in PrefixChars
                /\ r6.state.i < r6.state.len
                /\ CharAt(line, r6.state.i) = "|"]))))))

parsePayloadInstructionRun(line, lineNumber) ==
  With(parseSpace(NewState(line, lineNumber)), LAMBDA r1 :
  With(parseNumberField(r1.state), LAMBDA r2 :
  With(parseSpace(r2.state), LAMBDA r3 :
  With(parseFieldUntil(r3.state, {"."}), LAMBDA r4 :
  With(parseDot(r4.state), LAMBDA r5 :
  With(parseInstruction(r5.state), LAMBDA r6 :
    [node |-> [kind |-> "payload_instruction",
               space0First |-> r1.tok,
               time |-> r2.tok,
               space1TimeToEvent |-> r3.tok,
               event |-> r4.tok,
               dot |-> r5.tok,
               instruction |-> r6.tok],
     cursors |-> <<0, r1.state.i, r2.state.i, r3.state.i, r4.state.i,
                   r5.state.i>> \o r6.cursors]))))))

parsePayloadInstructionLine(line, lineNumber) ==
  parsePayloadInstructionRun(line, lineNumber).node

(***************************************************************************)
(* Dispatch: the first parser of the list whose check accepts the line.    *)
(***************************************************************************)

\* the check of the list entry that holds the named parser
check(parser, line) ==
  CASE parser = "comment" -> startsWith(trimStart(line), LitHash)
    [] parser = "trackName" ->
         startsWith(toLowerCase(trimStart(line)), LitTrackNameLower)
    [] parser = "rotation" -> includes(toLowerCase(line), LitAnimRotation)
    [] parser = "motion" -> includes(toLowerCase(line), LitAnimMotion)
    [] parser = "iframe" -> includes(toLowerCase(line), LitIFrameLower)
    [] parser = "payload_instruction" -> includes(toLowerCase(line), LitPieLower)

\* the call of the named parser
runParser(parser, line, lineNumber) ==
  CASE parser = "comment" -> parseCommentRun(line, lineNumber)
    [] parser = "trackName" -> parseTrackNameRun(line, lineNumber)
    [] parser = "rotation" -> parseAnimRotationRun(line, lineNumber)
    [] parser = "motion" -> parseAnimMotionRun(line, lineNumber)
    [] parser = "iframe" -> parseIFrameRun(line, lineNumber)
    [] parser = "payload_instruction" -> parsePayloadInstructionRun(line, lineNumber)

commonParsers == <<"comment", "trackName", "rotation", "motion">>

extParser == <<"iframe", "payload_instruction">>

\* for (const {check, parser} of parsers) if (check(line)) return parser(...)
\* and, past the loop, the text fallback
firstMatch(parsers, line, lineNumber) ==
  With({k \in 1..Len(parsers) : check(parsers[k], line)}, LAMBDA hits :
    IF hits = {} THEN parseTextRun(line, lineNumber)
    ELSE runParser(parsers[CHOOSE k \in hits : \A m \in hits : k <= m],
                   line, lineNumber))

\* the extended dispatch with the common list consulted first
parseHkannoLineExtCommonFirst(line, lineNumber) ==
  firstMatch(commonParsers \o extParser, line, lineNumber)

parseHkannoLineExtRun(line, lineNumber) ==
  firstMatch(extParser \o commonParsers, line, lineNumber)

parseHkannoLineExt(line, lineNumber) ==
  parseHkannoLineExtRun(line, lineNumber).node

\* the lenient dispatch consulting animmotion ahead of animrotation
parseHkannoLineMotionFirst(line, lineNumber) ==
  firstMatch(<<"comment", "trackName", "motion", "rotation">>, line, lineNumber)

parseHkannoLineRun(line, lineNumber) ==
  firstMatch(commonParsers, line, lineNumber)

parseHkannoLine(line, lineNumber) == parseHkannoLineRun(line, lineNumber).node

(***************************************************************************)
(* Formatter                                                               *)
(***************************************************************************)

\* field?.value of a numeric field and of a string field; undefined if absent
NumberValueOf(tok) ==
  IF tok.present THEN [defined |-> TRUE, number |-> TRUE, v |-> tok.value]
  ELSE [defined |-> FALSE]

StringValueOf(tok) ==
  IF tok.present THEN [defined |-> TRUE, number |-> FALSE, v |-> tok.value]
  ELSE [defined |-> FALSE]

StringValue(str) == [defined |-> TRUE, number |-> FALSE, v |-> str]

formatValue(v) ==
  IF ~v.defined THEN <<>>
  ELSE IF v.number THEN With(v.v, LAMBDA n : toFixed6(n))
  ELSE v.v

\* joinSpace1 without the filter: an undefined value is joined as ""
joinSpace1Unfiltered(values) ==
  joinWith([k \in 1..Len(values) |-> formatValue(values[k])], <<" ">>)

joinSpace1(values) ==
  With(SelectSeq(values, LAMBDA v : v.defined), LAMBDA kept :
    joinWith([k \in 1..Len(kept) |-> formatValue(kept[k])], <<" ">>))

\* node names a parsed node, not a call
formatNode(node) ==
  CASE node.kind = "rotation" ->
         joinSpace1(<<NumberValueOf(node.time), StringValueOf(node.event),
                      NumberValueOf(node.degrees)>>)
    [] node.kind = "motion" ->
         joinSpace1(<<NumberValueOf(node.time), StringValueOf(node.event),
                      NumberValueOf(node.x), NumberValueOf(node.y),
                      NumberValueOf(node.z)>>)
    [] node.kind = "text" ->
         joinSpace1(<<NumberValueOf(node.time), StringValueOf(node.text)>>)
    [] node.kind = "trackName" ->
         LitTrackName \o <<" ">>
           \o (IF node.name.present THEN trim(node.name.value) ELSE <<>>)
    [] node.kind = "comment" ->
         joinSpace1(<<StringValue(LitHash), StringValueOf(node.comment)>>)

\* formatHkannoText leaving out the lines that format to nothing
formatHkannoTextSkipEmpty(text) ==
  With(splitLines(text), LAMBDA lines :
  With([k \in 1..Len(lines) |->
          With(parseHkannoLine(lines[k], k), LAMBDA node : formatNode(node))],
       LAMBDA formattedLines :
    joinWith(SelectSeq(formattedLines, LAMBDA l : l # <<>>), <<"\n">>)))

formatHkannoText(text) ==
  With(splitLines(text), LAMBDA lines :
    joinWith([k \in 1..Len(lines) |->
                With(parseHkannoLine(lines[k], k), LAMBDA node : formatNode(node))],
             <<"\n">>))

(***************************************************************************)
(* The simple parser (parser/simple): one pass over the line with a       *)
(* cursor i, returning a flat record.  An optional key of the result that *)
(* was not set is Absent.                                                  *)
(***************************************************************************)

Some(value) == [present |-> TRUE, value |-> value]

\* const trimmed = line.replace(/\r$/, '')
trimmed(line) ==
  IF Len(line) > 0 /\ line[Len(line)] = "\r"
  THEN SubSeq(line, 1, Len(line) - 1) ELSE line

RECURSIVE SkipToken(_, _)
\* while (i < len && !/\s/.test(trimmed[i])) i++
SkipToken(line, i) ==
  IF i < Len(line) /\ ~IsSpace(line[i + 1]) THEN SkipToken(line, i + 1) ELSE i

RECURSIVE SkipKey(_, _)
\* while (i < len && trimmed[i] !== ':' && !/\s/.test(trimmed[i])) i++
SkipKey(line, i) ==
  IF i < Len(line) /\ line[i + 1] # ":" /\ ~IsSpace(line[i + 1])
  THEN SkipKey(line, i + 1) ELSE i

TokenPos(lineNumber, start, length) ==
  [line |-> lineNumber, startColumn |-> start + 1, length |-> length]

ErrInvalidTimeToken ==
  <<"I", "n", "v", "a", "l", "i", "d", " ", "t", "i", "m", "e", " ", "t",
    "o", "k", "e", "n", ":", " ", "\"">>

ErrMissingAngle ==
  <<"a", "n", "i", "m", "r", "o", "t", "a", "t", "i", "o", "n", " ", "m",
    "i", "s", "s", "i", "n", "g", " ", "n", "u", "m", "e", "r", "i", "c",
    " ", "a", "n", "g", "l", "e">>

\* const res: ParsedHkanno = { type: 'none', errors: [] }
NewRes ==
  [type |-> "none", time |-> Absent, timeComplete |-> Absent,
   rawText |-> Absent, eventName |-> Absent, args |-> Absent,
   tokenPositions |-> Absent, errors |-> <<>>]

\* the '#' branch; i is the index of the '#'
parseMeta(line, lineNumber, i) ==
  With(SkipSpaces(line, i + 1), LAMBDA keyStart :
  With(SkipKey(line, keyStart), LAMBDA keyEnd :
  With(SkipSpaces(line, keyEnd), LAMBDA colon :
  With(SkipSpaces(line, IF CharAt(line, colon) = ":" THEN colon + 1 ELSE colon),
       LAMBDA valueStart :
    [NewRes EXCEPT
       !.type = "meta",
       !.eventName = Some(Slice(line, keyStart, keyEnd)),
       !.rawText = Some(Slice(line, valueStart, Len(line))),
       !.tokenPositions =
         Some([time |-> TokenPos(lineNumber, 0, 0),
               verb |-> Some(TokenPos(lineNumber, keyStart, keyEnd - keyStart)),
               argPositions |-> Some(<<>>)])]))))

\* the cursor after the sign, the digits and dots, and the exponent of numStr
numStrEnd(line, start) ==
  With(IF IsSign(CharAt(line, start)) THEN start + 1 ELSE start, LAMBDA i1 :
  With(SkipDigitsDots(line, i1), LAMBDA i2 :
    IF i2 < Len(line) /\ CharAt(line, i2) \in {"e", "E"}
    THEN SkipDigits(line,
                    IF i2 + 1 < Len(line) /\ IsSign(CharAt(line, i2 + 1))
                    THEN i2 + 2 ELSE i2 + 1)
    ELSE i2))

\* the helper parseNumber, called with the cursor at i: null is found = FALSE,
\* and i is the cursor it leaves
parseNumber(line, i) ==
  With(SkipSpaces(line, i), LAMBDA start :
    IF start >= Len(line) THEN [found |-> FALSE, i |-> start]
    ELSE With(numStrEnd(line, start), LAMBDA end :
         With(Number(Slice(line, start, end)), LAMBDA value :
           IF value.t # "fin" THEN [found |-> FALSE, i |-> end]
           ELSE [found |-> TRUE, i |-> end,
                 value |-> value, start |-> start, end |-> end])))

RECURSIVE motionArgs(_, _, _, _)
\* for (let k = 0; k < 3; k++) { ... }: the args and argPositions pushed
\* from iteration k on
motionArgs(line, lineNumber, i, k) ==
  IF k >= 3 THEN [args |-> <<>>, argPositions |-> <<>>]
  ELSE With(parseNumber(line, i), LAMBDA n :
       With(motionArgs(line, lineNumber, n.i, k + 1), LAMBDA rest :
         IF n.found
         THEN [args |-> <<n.value>> \o rest.args,
               argPositions |->
                 <<TokenPos(lineNumber, n.start, n.end - n.start)>>
                   \o rest.argPositions]
         ELSE rest))

\* the branches on verbLower; res holds time, eventName and the time and verb
\* positions, and i is the cursor after the whitespace that follows the verb
parseVerb(line, lineNumber, res, verbEnd, i) ==
  With(toLowerCase(res.eventName.value), LAMBDA verbLower :
    IF verbLower = LitAnimMotion
    THEN With(motionArgs(line, lineNumber, i, 0), LAMBDA m :
           [res EXCEPT
              !.type = "motion",
              !.args = Some(m.args),
              !.tokenPositions.value.argPositions = Some(m.argPositions),
              !.rawText = Some(Slice(line, verbEnd + 1, Len(line)))])
    ELSE IF verbLower = LitAnimRotation
    THEN With(parseNumber(line, i), LAMBDA n :
           IF n.found
           THEN [res EXCEPT
                   !.type = "rotation",
                   !.args = Some(<<n.value>>),
                   !.tokenPositions.value.argPositions =
                     Some(<<TokenPos(lineNumber, n.start, n.end - n.start)>>),
                   !.rawText = Some(Slice(line, verbEnd + 1, Len(line)))]
           ELSE [res EXCEPT !.type = "invalid",
                            !.errors = Append(@, ErrMissingAngle)])
    ELSE [res EXCEPT !.type = "text",
                     !.rawText = Some(Slice(line, verbEnd + 1, Len(line)))])

\* from the time token on; timeStart is the cursor after the leading whitespace
parseTimed(line, lineNumber, timeStart) ==
  With(SkipToken(line, timeStart), LAMBDA timeEnd :
  With(Slice(line, timeStart, timeEnd), LAMBDA timeToken :
  With(Number(timeToken), LAMBDA timeVal :
    IF timeVal.t # "fin"
    THEN [NewRes EXCEPT
            !.type = "invalid",
            !.rawText = Some(Slice(line, timeStart, Len(line))),
            !.errors = <<ErrInvalidTimeToken \o timeToken \o <<"\"">> >>]
    ELSE
  With([NewRes EXCEPT
          !.time = Some(timeVal),
          !.tokenPositions =
            Some([time |-> TokenPos(lineNumber, timeStart, timeEnd - timeStart),
                  verb |-> Absent, argPositions |-> Absent]),
          !.timeComplete =
            Some(timeEnd < Len(line) /\ IsSpace(CharAt(line, timeEnd)))],
       LAMBDA res :
  With(SkipSpaces(line, timeEnd), LAMBDA verbStart :
    IF verbStart >= Len(line)
    THEN [res EXCEPT !.type = "text", !.rawText = Some(<<>>)]
    ELSE
  With(SkipToken(line, verbStart), LAMBDA verbEnd :
    parseVerb(line, lineNumber,
              [res EXCEPT
                 !.eventName = Some(Slice(line, verbStart, verbEnd)),
                 !.tokenPositions.value.verb =
                   Some(TokenPos(lineNumber, verbStart, verbEnd - verbStart))],
              verbEnd, SkipSpaces(line, verbEnd))))))))

\* parseHkannoLine of parser/simple/index.ts
parseHkannoLineSimple(line, lineNumber) ==
  IF line = <<>> \/ trim(line) = <<>> THEN NewRes
  ELSE With(trimmed(line), LAMBDA t :
       With(SkipSpaces(t, 0), LAMBDA i :
         IF CharAt(t, i) = "#" THEN parseMeta(t, lineNumber, i)
         ELSE parseTimed(t, lineNumber, i)))

(***************************************************************************)
(* Diagnostics (updateHkannoDiagnostics): the markers set on the editor's  *)
(* model for its lines.  A message is its template and the values put in.  *)
(***************************************************************************)

UpperChar(c) ==
  IF \E k \in 1..26 : LowerLetters[k] = c
  THEN UpperLetters[CHOOSE k \in 1..26 : LowerLetters[k] = c]
  ELSE c

\* String.prototype.toUpperCase
toUpperCase(s) == With(s, LAMBDA t : [k \in 1..Len(t) |-> UpperChar(t[k])])

\* name and snippet of the native instructions (the documentation is not read)
PIE_NATIVE_INSTRUCTIONS ==
  <<
    [name |->
       <<"S", "G", "V", "B">>,
     snippet |->
       <<"S", "G", "V", "B", "|", "$", "{", "1", ":", "g", "r", "a", "p",
         "h", "V", "a", "r", "i", "a", "b", "l", "e", "}", "|", "$", "{",
         "2", ":", "b", "o", "o", "l", "}">>],
    [name |->
       <<"S", "G", "V", "F">>,
     snippet |->
       <<"S", "G", "V", "F", "|", "$", "{", "1", ":", "g", "r", "a", "p",
         "h", "V", "a", "r", "i", "a", "b", "l", "e", "}", "|", "$", "{",
         "2", ":", "f", "l", "o", "a", "t", "}">>],
    [name |->
       <<"S", "G", "V", "I">>,
     snippet |->
       <<"S", "G", "V", "I", "|", "$", "{", "1", ":", "g", "r", "a", "p",
         "h", "V", "a", "r", "i", "a", "b", "l", "e", "}", "|", "$", "{",
         "2", ":", "i", "n", "t", "}">>],
    [name |->
       <<"C", "A", "S", "T", "S", "P", "E", "L", "L">>,
     snippet |->
       <<"C", "A", "S", "T", "S", "P", "E", "L", "L", "|", "$", "{", "1",
         ":", "s", "p", "e", "l", "l", "I", "D", "}", "|", "$", "{", "2",
         ":", "e", "s", "p", "}", "|", "$", "{", "3", ":", "e", "f", "f",
         "e", "c", "t", "i", "v", "e", "n", "e", "s", "s", "}", "|", "$",
         "{", "4", ":", "m", "a", "g", "n", "i", "t", "u", "d", "e", "}",
         "|", "$", "{", "5", ":", "s", "e", "l", "f", "T", "a", "r", "g",
         "e", "t", "i", "n", "g", "}", "|", "$", "{", "6", ":", "H", "e",
         "a", "l", "t", "h", "R", "e", "q", "}", "|", "$", "{", "7", ":",
         "H", "e", "a", "l", "t", "h", "C", "o", "s", "t", "}", "|", "$",
         "{", "8", ":", "S", "t", "a", "m", "i", "n", "a", "R", "e", "q",
         "}", "|", "$", "{", "9", ":", "S", "t", "a", "m", "i", "n", "a",
         "C", "o", "s", "t", "}", "|", "$", "{", "1", "0", ":", "M", "a",
         "g", "i", "c", "k", "a", "R", "e", "q", "}", "|", "$", "{", "1",
         "1", ":", "M", "a", "g", "i", "c", "k", "a", "C", "o", "s", "t",
         "}">>],
    [name |->
       <<"A", "P", "P", "L", "Y", "S", "P", "E", "L", "L">>,
     snippet |->
       <<"A", "P", "P", "L", "Y", "S", "P", "E", "L", "L", "|", "$", "{",
         "1", ":", "s", "p", "e", "l", "l", "I", "D", "}", "|", "$", "{",
         "2", ":", "e", "s", "p", "}">>],
    [name |->
       <<"U", "N", "A", "P", "P", "L", "Y", "S", "P", "E", "L", "L">>,
     snippet |->
       <<"U", "N", "A", "P", "P", "L", "Y", "S", "P", "E", "L", "L", "|",
         "$", "{", "1", ":", "s", "p", "e", "l", "l", "I", "D", "}", "|",
         "$", "{", "2", ":", "e", "s", "p", "}">>],
    [name |->
       <<"S", "E", "T", "G", "H", "O", "S", "T">>,
     snippet |->
       <<"S", "E", "T", "G", "H", "O", "S", "T", "|", "$", "{", "1", ":",
         "b", "o", "o", "l", "}">>],
    [name |->
       <<"P", "L", "A", "Y", "P", "A", "R", "T", "I", "C", "L", "E">>,
     snippet |->
       <<"P", "L", "A", "Y", "P", "A", "R", "T", "I", "C", "L", "E", "|",
         "$", "{", "1", ":", "n", "i", "f", "P", "a", "t", "h", "}", "|",
         "$", "{", "2", ":", "b", "o", "d", "y", "P", "a", "r", "t", "I",
         "n", "d", "e", "x", "}", "|", "$", "{", "3", ":", "s", "c", "a",
         "l", "e", "}", "|", "$", "{", "4", ":", "p", "l", "a", "y", "T",
         "i", "m", "e", "}", "|", "$", "{", "5", ":", "f", "l", "a", "g",
         "s", "}", "|", "$", "{", "6", ":", "X", "}", "|", "$", "{", "7",
         ":", "Y", "}", "|", "$", "{", "8", ":", "Z", "}">>]
  >>

\* (def.snippet.match(/\$\{[0-9]+:/g) ?? []).length
expectedOf(snippet) ==
  Cardinality({k \in 0..(Len(snippet) - 1) :
                 /\ CharAt(snippet, k) = "$"
                 /\ CharAt(snippet, k + 1) = "{"
                 /\ SkipDigits(snippet, k + 2) > k + 2
                 /\ CharAt(snippet, SkipDigits(snippet, k + 2)) = ":"})

RECURSIVE EolSplit(_, _, _)
\* the pieces of s from index a on, cut at every \r\n, \r and \n; i scans
EolSplit(s, a, i) ==
  IF i >= Len(s) THEN <<Slice(s, a, Len(s))>>
  ELSE IF s[i + 1] = "\r" /\ CharAt(s, i + 1) = "\n"
       THEN <<Slice(s, a, i)>> \o EolSplit(s, i + 2, i + 2)
  ELSE IF s[i + 1] \in {"\r", "\n"}
       THEN <<Slice(s, a, i)>> \o EolSplit(s, i + 1, i + 1)
       ELSE EolSplit(s, a, i + 1)

\* model.getLinesContent()
getLinesContent(text) == EolSplit(text, 0, 0)

\* tok?.pos?.startColumn ?? 1 and tok?.pos?.endColumn ?? lineLength + 1
markerAt(severity, message, lineNumber, tok, lineLength) ==
  [severity |-> severity, message |-> message,
   startLineNumber |-> lineNumber, endLineNumber |-> lineNumber,
   startColumn |-> IF tok.present THEN tok.pos.startColumn ELSE 1,
   endColumn |-> IF tok.present THEN tok.pos.endColumn ELSE lineLength + 1]

\* ToBoolean of a decoded JSON value
truthy(v) ==
  CASE v.t \in {"object", "array", "true"} -> TRUE
    [] v.t = "string" -> v.s # <<>>
    [] v.t = "number" -> v.num.t = "inf" \/ (v.num.t = "fin" /\ v.num.mant # <<>>)
    [] OTHER -> FALSE

\* Object.keys of a truthy decoded JSON value
ObjectKeys(v) ==
  CASE v.t = "object" ->
         SelectSeq([k \in 1..Len(v.keys) |->
                      [key |-> v.keys[k],
                       first |-> \A m \in 1..(k - 1) : v.keys[m] # v.keys[k]]],
                   LAMBDA e : e.first)
    [] v.t = "array" ->
         [k \in 1..Len(v.items) |->
            [key |-> DigitChars(IntDigits(k - 1)), first |-> TRUE]]
    [] v.t = "string" ->
         [k \in 1..Len(v.s) |->
            [key |-> DigitChars(IntDigits(k - 1)), first |-> TRUE]]
    [] OTHER -> <<>>

LitDuration == <<"D", "u", "r", "a", "t", "i", "o", "n">>

TemplateJsonMissing ==
  "IFrame JSON is missing or invalid. Only \"Duration\" is supported (IFrame Generator RE v1.03)."

\* provideIFrameDiagnostics with the two JSON branches as independent ifs
provideIFrameDiagnosticsBoth(node, lineNumber, lineLength) ==
  (IF ~node.time.present
   THEN <<markerAt("Error", [template |-> "Missing time value in IFrame event."],
                   lineNumber, node.time, lineLength)>>
   ELSE <<>>)
  \o (IF ~node.event.present \/ node.event.value # LitIFrame
      THEN <<markerAt("Error",
                      [template |-> "Invalid IFrame event name (expected 'SpecialFrames_Invincible')."],
                      lineNumber, node.event, lineLength)>>
      ELSE <<>>)
  \o (IF node.jsonParseError.present
      THEN <<markerAt("Error",
                      [template |-> "IFrame JSON parse error: ${node.jsonParseError.message}",
                       message |-> node.jsonParseError.message],
                      lineNumber, node.json, lineLength)>>
      ELSE <<>>)
  \o (IF ~node.json.present \/ node.json.value = UndefinedValue
      THEN <<markerAt("Error",
                      [template |-> TemplateJsonMissing],
                      lineNumber, node.json, lineLength)>>
      ELSE <<>>)
  \o (IF node.json.present /\ truthy(node.json.value)
      THEN With(SelectSeq(ObjectKeys(node.json.value),
                          LAMBDA e : e.key # LitDuration), LAMBDA keys :
             [k \in 1..Len(keys) |->
                markerAt("Warning",
                         [template |-> "Possible typo: \"${key}\". Did you mean \"Duration\"? (IFrame Generator RE v1.03 supports only \"Duration\")",
                          key |-> keys[k].key],
                         lineNumber, node.json, lineLength)
                  @@ [code |-> "fix-iframe-key"]])
      ELSE <<>>)

provideIFrameDiagnostics(node, lineNumber, lineLength) ==
  (IF ~node.time.present
   THEN <<markerAt("Error", [template |-> "Missing time value in IFrame event."],
                   lineNumber, node.time, lineLength)>>
   ELSE <<>>)
  \o (IF ~node.event.present \/ node.event.value # LitIFrame
      THEN <<markerAt("Error",
                      [template |-> "Invalid IFrame event name (expected 'SpecialFrames_Invincible')."],
                      lineNumber, node.event, lineLength)>>
      ELSE <<>>)
  \o (IF node.jsonParseError.present
      THEN <<markerAt("Error",
                      [template |-> "IFrame JSON parse error: ${node.jsonParseError.message}",
                       message |-> node.jsonParseError.message],
                      lineNumber, node.json, lineLength)>>
      ELSE IF ~node.json.present \/ node.json.value = UndefinedValue
      THEN <<markerAt("Error",
                      [template |-> TemplateJsonMissing],
                      lineNumber, node.json, lineLength)>>
      ELSE <<>>)
  \o (IF node.json.present /\ truthy(node.json.value)
      THEN With(SelectSeq(ObjectKeys(node.json.value),
                          LAMBDA e : e.key # LitDuration), LAMBDA keys :
             [k \in 1..Len(keys) |->
                markerAt("Warning",
                         [template |-> "Possible typo: \"${key}\". Did you mean \"Duration\"? (IFrame Generator RE v1.03 supports only \"Duration\")",
                          key |-> keys[k].key],
                         lineNumber, node.json, lineLength)
                  @@ [code |-> "fix-iframe-key"]])
      ELSE <<>>)

\* the motion and rotation branches: one marker for each listed field that
\* is undefined
missingValueDiagnostics(node, lineNumber, lineLength) ==
  With(IF node.kind = "motion"
       THEN <<[tok |-> node.x, template |-> "Missing x value in animmotion."],
              [tok |-> node.y, template |-> "Missing y value in animmotion."],
              [tok |-> node.z, template |-> "Missing z value in animmotion."]>>
       ELSE <<[tok |-> node.degrees,
               template |-> "Missing degrees value in animrotation."]>>,
       LAMBDA fields :
  With(SelectSeq(fields, LAMBDA f : ~f.tok.present), LAMBDA missing :
    [k \in 1..Len(missing) |->
       markerAt("Error", [template |-> missing[k].template],
                lineNumber, missing[k].tok, lineLength)]))

\* the payload instruction branch
pieDiagnostics(node, lineNumber, lineLength) ==
  With(node.instruction, LAMBDA inst :
  With(IF inst.present /\ inst.name.present
       THEN toUpperCase(inst.name.value) ELSE <<>>, LAMBDA name :
  With(SelectSeq(PIE_NATIVE_INSTRUCTIONS,
                 LAMBDA i : toUpperCase(i.name) = name), LAMBDA defs :
    IF name = <<>> \/ defs = <<>> THEN <<>>
    ELSE
  With(IF inst.parameters.present
       THEN Len(SelectSeq(inst.parameters.items, LAMBDA item : item.value.present))
       ELSE 0, LAMBDA provided :
  With(expectedOf(defs[1].snippet), LAMBDA expected :
    IF provided < expected
    THEN <<[severity |-> "Error",
            message |->
              [template |-> "PIE instruction '${name}' expects ${expected} parameters, but ${provided} provided.",
               name |-> name, expected |-> expected, provided |-> provided],
            startLineNumber |-> lineNumber, endLineNumber |-> lineNumber,
            startColumn |-> inst.prefix.pos.startColumn,
            endColumn |-> IF inst.parameters.present
                          THEN inst.parameters.pos.endColumn
                          ELSE inst.name.pos.endColumn]>>
    ELSE <<>>)))))

\* the text branch
textDiagnostics(node, lineNumber, lineLength) ==
  IF node.time.present /\ ~node.text.present
  THEN <<[severity |-> "Warning",
          message |-> [template |-> "Text annotation is missing."],
          startLineNumber |-> lineNumber, endLineNumber |-> lineNumber,
          startColumn |-> IF node.space1TimeToText.present
                          THEN node.space1TimeToText.pos.startColumn
                          ELSE node.time.pos.endColumn,
          endColumn |-> IF node.space0AfterText.present
                        THEN node.space0AfterText.pos.endColumn
                        ELSE lineLength + 1]>>
  ELSE <<>>

\* the body of the loop over the lines: the markers pushed for one line
lineDiagnostics(line, lineNumber) ==
  With(parseHkannoLineExt(line, lineNumber), LAMBDA node :
    CASE node.kind = "iframe" ->
           provideIFrameDiagnostics(node, lineNumber, Len(line))
      [] node.kind \in {"motion", "rotation"} ->
           missingValueDiagnostics(node, lineNumber, Len(line))
      [] node.kind = "payload_instruction" ->
           pieDiagnostics(node, lineNumber, Len(line))
      [] node.kind = "text" -> textDiagnostics(node, lineNumber, Len(line))
      [] OTHER -> <<>>)

\* the markers handed to setModelMarkers
updateHkannoDiagnostics(text) ==
  With(getLinesContent(text), LAMBDA lines :
    joinWith([k \in 1..Len(lines) |-> lineDiagnostics(lines[k], k)], <<>>))

(***************************************************************************)
(* The inputs: texts built from the tokens of the format.                  *)
(***************************************************************************)

\* longest text of PieceTexts, in pieces
MaxPieces == 2
\* longest whitespace run between the fields of an event line
MaxRun == 2
\* longest tail of a payload line, in pieces
MaxTail == 4
\* largest line number handed to a parse call
MaxLineNumber == 2

LitAnimRotationMixed == <<"A", "n", "i", "m", "R", "o", "t", "a", "t", "i", "o", "n">>

Pieces ==
  { <<" ">>, <<"\n">>, <<"0", ".", "5">>, <<"9", "0">>, <<"-">>, <<".">>,
    <<"e">>, <<"x">>, <<"#">>, LitTrackName, LitAnimRotation,
    LitAnimRotationMixed, LitAnimMotion, LitIFrame, <<"P", "I", "E">>,
    <<"{", "}">> }

RECURSIVE Concat(_)
Concat(parts) == IF Len(parts) = 0 THEN <<>> ELSE parts[1] \o Concat(Tail(parts))

\* every text of at most MaxPieces pieces
PieceTexts ==
  UNION {{Concat(ps) : ps \in [1..n -> Pieces]} : n \in 0..MaxPieces}

Spaces(n) == [k \in 1..n |-> " "]

EventTimes == {<<>>, <<"0", ".", "5">>, <<"-", "9", "0">>, <<"+">>}

EventArgs ==
  {<<>>, <<"9", "0">>, <<"1", "e", "1", " ", "-", ".", "5", " ", " ", "2">>}

\* <time><run><event><run><numbers><pad>
EventTexts ==
  { time \o Spaces(n1) \o event \o Spaces(n2) \o args \o trail :
      time \in EventTimes,
      n1 \in 0..MaxRun,
      event \in {LitAnimRotation, LitAnimMotion, LitAnimRotationMixed},
      n2 \in 0..MaxRun,
      args \in EventArgs,
      trail \in {<<>>, <<"\t">>} }

PayloadHeads ==
  { <<"P", "I", "E", ".", "@", "N">>,
    <<"0", ".", "3", " ", "p", "i", "e", ".", "$">>,
    <<"P", "I", "E", ".", "N">>,
    <<" ", "p", "i", "e", ".", "!", "N">> }

\* <head><tail>, the tail of at most MaxTail separators and values
PayloadTexts ==
  { head \o Concat(ps) :
      head \in PayloadHeads,
      ps \in UNION {[1..n -> {<<"|">>, <<"a">>}] : n \in 0..MaxTail} }

IFrameTails ==
  { <<>>, <<"{", "\"", "x", "\"", ":", "9", "0", "}">>,
    <<" ", "{", "\"", "x", "\"", ":", "[", "1", ",", "\"", "a", "\"", "]", "}", " ">>,
    <<"{", "x", "}">>, <<"{", "\"", "x", "\"", ":">>, <<"\"", "x">>,
    <<"[", "1", ",">>, <<"n", "u", "l", "l">>, <<"0", "5">>, <<" ">>,
    <<"{", "\"", "D", "u", "r", "a", "t", "i", "o", "n", "\"", ":", "1", "}">>,
    <<"\"", "x", "\"">>, <<"0">> }

IFrameTexts ==
  { <<"0", ".", "5", " ">> \o LitIFrame \o tail : tail \in IFrameTails }

DocLines ==
  { <<>>, <<"#", " ", " ", "c", " ">>, <<" ", "0", ".", "5", " ", " ", "x">>,
    <<"9", "0">> \o LitAnimRotation \o <<"-", "1">> }

\* documents of two lines
DocTexts == { first \o <<"\n">> \o second : first \in DocLines, second \in DocLines }

SimpleTails ==
  { <<>>, <<"x">>, <<"4", "5", ".", "0">>, <<"1", " ", "x">>,
    <<"1", " ", "2", " ", "3", " ", "4">>, <<"-", " ", "1">>,
    <<"1", ".", "2", ".", "3", " ", "4">>, <<"4", "5", "d", "e", "g">>,
    <<"1", "e", "x">>, <<"1", "\r">> }

\* <time> <verb> <tail>
SimpleTexts ==
  { <<"0", ".", "3", " ">> \o verb \o <<" ">> \o tail :
      verb \in {LitAnimRotation, LitAnimRotationMixed, LitAnimMotion, <<"x">>},
      tail \in SimpleTails }

NativeHeads ==
  { <<"P", "I", "E", ".", "@", "S", "E", "T", "G", "H", "O", "S", "T">>,
    <<"P", "I", "E", ".", "$", "S", "E", "T", "G", "H", "O", "S", "T">>,
    <<"p", "i", "e", ".", "!", "s", "e", "t", "g", "h", "o", "s", "t">>,
    <<"0", ".", "3", " ", "P", "I", "E", ".", "@", "S", "G", "V", "B">> }

NativeTails ==
  { <<>>, <<"|">>, <<"|", "a">>, <<"|", "|">>, <<"|", "a", "|">>,
    <<"|", "a", "|", "b">>, <<"|", "a", "|", "b", "|", "c">> }

\* <event>.<prefix><native name><parameters>
NativeTexts == { head \o tail : head \in NativeHeads, tail \in NativeTails }

Texts ==
  PieceTexts \cup EventTexts \cup PayloadTexts \cup IFrameTexts \cup DocTexts
    \cup SimpleTexts \cup NativeTexts

(***************************************************************************)
(* The state machine: a text, and the results of the calls made on it.     *)
(***************************************************************************)

VARIABLES
  text,         \* the input: a line for the parsers, a document for the formatter
  lineNumber,   \* the line number handed to the parsers
  parsed,       \* what parseHkannoLine(text, lineNumber) returned
  parsedExt,    \* what parseHkannoLineExt(text, lineNumber) returned
  formatted,    \* what formatHkannoText(text) returned
  reformatted,  \* what formatHkannoText of that result returned
  payloadRun,   \* a call of parsePayloadInstructionLine, statement by statement
  parsedSimple, \* what parseHkannoLine of parser/simple returned
  markers,      \* what updateHkannoDiagnostics set on the model that holds text
  app           \* the App component: its state, its calls in flight, its timers

vars ==
  <<text, lineNumber, parsed, parsedExt, formatted, reformatted, payloadRun,
    parsedSimple, markers, app>>

\* no call of parsePayloadInstructionLine is under way
Idle == [pc |-> "idle"]

NotCalled == [called |-> FALSE]

\* the App component is not rendered
Unmounted == [mounted |-> FALSE]

Returned(run) ==
  With(run, LAMBDA r : [called |-> TRUE, node |-> r.node, cursors |-> r.cursors])

Init ==
  /\ text \in Texts
  /\ lineNumber \in 1..MaxLineNumber
  /\ parsed = NotCalled
  /\ parsedExt = NotCalled
  /\ formatted = NotCalled
  /\ reformatted = NotCalled
  /\ payloadRun = Idle
  /\ parsedSimple = NotCalled
  /\ markers = NotCalled
  /\ app = Unmounted

\* const node = parseHkannoLine(text, lineNumber)
ParseLine ==
  /\ ~parsed.called
  /\ parsed' = Returned(parseHkannoLineRun(text, lineNumber))
  /\ UNCHANGED <<text, lineNumber, parsedExt, formatted, reformatted, payloadRun,
               parsedSimple, markers, app>>

\* const node = parseHkannoLineExt(text, lineNumber)
ParseLineExt ==
  /\ ~parsedExt.called
  /\ parsedExt' = Returned(parseHkannoLineExtRun(text, lineNumber))
  /\ UNCHANGED <<text, lineNumber, parsed, formatted, reformatted, payloadRun,
               parsedSimple, markers, app>>

\* provideDocumentFormattingEdits on a document that holds text
Format ==
  /\ ~formatted.called
  /\ formatted' = [called |-> TRUE, text |-> formatHkannoText(text)]
  /\ UNCHANGED <<text, lineNumber, parsed, parsedExt, reformatted, payloadRun,
               parsedSimple, markers, app>>

\* provideDocumentFormattingEdits again, on the document the edit left
Reformat ==
  /\ formatted.called
  /\ ~reformatted.called
  /\ reformatted' = [called |-> TRUE, text |-> formatHkannoText(formatted.text)]
  /\ UNCHANGED <<text, lineNumber, parsed, parsedExt, formatted, payloadRun,
               parsedSimple, markers, app>>

Next == ParseLine \/ ParseLineExt \/ Format \/ Reformat

Spec == Init /\ [][Next]_vars

(***************************************************************************)
(* parsePayloadInstructionLine(text, lineNumber) run statement by          *)
(* statement: the straight-line part, then the while loop one iteration    *)
(* at a time.                                                              *)
(***************************************************************************)

LoopInit ==
  /\ text \in Texts
  /\ lineNumber \in 1..MaxLineNumber
  /\ parsed = NotCalled
  /\ parsedExt = NotCalled
  /\ formatted = NotCalled
  /\ reformatted = NotCalled
  /\ payloadRun = [pc |-> "start"]
  /\ parsedSimple = NotCalled
  /\ markers = NotCalled
  /\ app = Unmounted

\* the statements from the first parseSpace to the guard of the loop
Prelude ==
  /\ payloadRun.pc = "start"
  /\ payloadRun' =
       With(parseUpToLoop(text, lineNumber), LAMBDA r :
         [pc |-> IF r.enters THEN "loop" ELSE "done",
          i |-> r.state.i,
          paramStart |-> r.state.i,
          iterations |-> 0,
          cursors |-> r.cursors])
  /\ UNCHANGED <<text, lineNumber, parsed, parsedExt, formatted, reformatted,
               parsedSimple, markers, app>>

\* while (state.i < state.len) { ... }: one iteration; the count of
\* iterations is capped one past the length of the line
LoopIteration ==
  /\ payloadRun.pc = "loop"
  /\ payloadRun.i < Len(text)
  /\ payloadRun.iterations <= Len(text)
  /\ payloadRun' =
       With(loopIteration(At(NewState(text, lineNumber), payloadRun.i)),
            LAMBDA it :
         [payloadRun EXCEPT !.i = it.state.i,
                            !.iterations = @ + 1,
                            !.cursors = @ \o it.cursors])
  /\ UNCHANGED <<text, lineNumber, parsed, parsedExt, formatted, reformatted,
               parsedSimple, markers, app>>

\* the loop condition fails: params.pos is set and the node returned
LoopExit ==
  /\ payloadRun.pc = "loop"
  /\ ~(payloadRun.i < Len(text))
  /\ payloadRun' = [payloadRun EXCEPT !.pc = "done"]
  /\ UNCHANGED <<text, lineNumber, parsed, parsedExt, formatted, reformatted,
               parsedSimple, markers, app>>

LoopNext == Prelude \/ LoopIteration \/ LoopExit

\* the engine runs the call to completion: a statement that can run, runs
LoopSpec == LoopInit /\ [][LoopNext]_vars /\ WF_vars(LoopNext)

(***************************************************************************)
(* parseHkannoLine of parser/simple called on the text.                    *)
(***************************************************************************)

\* const res = parseHkannoLine(text, lineNumber)
ParseLineSimple ==
  /\ ~parsedSimple.called
  /\ parsedSimple' =
       [called |-> TRUE, res |-> parseHkannoLineSimple(text, lineNumber)]
  /\ UNCHANGED <<text, lineNumber, parsed, parsedExt, formatted, reformatted,
                 payloadRun, markers, app>>

SimpleNext == ParseLineSimple

SimpleSpec == Init /\ [][SimpleNext]_vars

(***************************************************************************)
(* updateHkannoDiagnostics run on the model that holds the text, on mount  *)
(* or on a change of its content.                                          *)
(***************************************************************************)

Diagnose ==
  /\ ~markers.called
  /\ markers' = [called |-> TRUE, list |-> updateHkannoDiagnostics(text)]
  /\ UNCHANGED <<text, lineNumber, parsed, parsedExt, formatted, reformatted,
                 payloadRun, parsedSimple, app>>

DiagNext == Diagnose

DiagSpec == Init /\ [][DiagNext]_vars

(***************************************************************************)
(* The App component of tauri-prototype/src/App.tsx. The file holds the    *)
(* component twice: lines 1-348, where a tab's annotation is a file that   *)
(* the backend deletes on cleanup_annotation, and lines 351-917, where     *)
(* annotations live in memory and Ctrl+W, Ctrl+Shift+W exist. Which of     *)
(* the two a build renders is not fixed by the source, so the model picks  *)
(* either in its first state. The handlers of a render close over the      *)
(* state of that render: a handler that awaits the backend goes on with    *)
(* the activeTabId, activeTab and tabs it was called with, while the       *)
(* updater it hands to setTabs runs on the tabs of the moment. The         *)
(* search panel, the file dialogs, the drag overlay and the format         *)
(* selector are left out.                                                  *)
(***************************************************************************)

MaxTabs == 2

MaxPending == 1

MaxTimers == 1

Builds == {"files", "memory"}

\* the hkx files a dump can name, the texts an editor can hold, the
\* failures the backend can report
Files == {"a.hkx", "b.hkx"}

Contents == {"x", "y"}

Errors == {"denied"}

\* useState<string | null>(null)
Null == "null"

\* { type: 'idle', message: 'Ready' }
Ready == [type |-> "idle", message |-> <<"Ready">>]

\* array.filter(test)
filter(array, test(_)) == SelectSeq(array, test)

\* array without its k-th element
Without(array, k) == SubSeq(array, 1, k - 1) \o SubSeq(array, k + 1, Len(array))

\* `${n}`
Count(n) == DigitChars(IntDigits(n))

\* an element of the array dump_annotations resolves with
Result(file, content) ==
  [hkx_path |-> file, anno_path |-> file, display_name |-> file,
   content |-> content]

\* the arrays dump_annotations can resolve with: no hkx file twice
DumpResults ==
  {results \in UNION {[1..n -> {Result(f, c) : f \in Files, c \in Contents}] :
                        n \in 0..Cardinality(Files)} :
     \A j, k \in DOMAIN results :
       results[j].hkx_path = results[k].hkx_path => j = k}

\* results.map(r => ({ ..., modified: false })); stored is no field of Tab:
\* it is the content the backend holds for the tab, loaded by the dump or
\* sent by the last update_annotations that succeeded
newTabs(results) ==
  [k \in DOMAIN results |->
     [hkxPath |-> results[k].hkx_path,
      annoPath |-> results[k].anno_path,
      displayName |-> results[k].display_name,
      content |-> results[k].content,
      modified |-> FALSE,
      stored |-> results[k].content]]

\* an entry of the files argument of update_annotations
fileOf(tab) ==
  [hkx_path |-> tab.hkxPath, anno_path |-> tab.annoPath,
   display_name |-> tab.displayName, content |-> tab.content]

\* a call of invoke that has not settled, with what the rest of its handler
\* reads of the render it was called in
Call(command, handler, files, annoPath, activeTabId) ==
  [command |-> command, handler |-> handler, files |-> files,
   annoPath |-> annoPath, activeTabId |-> activeTabId]

\* const activeTab = tabs.find(t => t.annoPath === activeTabId)
activeTab(a) ==
  With(filter(a.tabs, LAMBDA t : t.annoPath = a.activeTabId), LAMBDA found :
    IF found = <<>> THEN Absent ELSE Some(found[1]))

\* showStatus(type, message): the status, and a timer unless it is loading
showStatus(a, type, message) ==
  [a EXCEPT !.status = [type |-> type, message |-> message],
            !.timers = IF type # "loading" THEN @ + 1 ELSE @]

\* whether showStatus may arm one more timer
TimerFree(a) == a.timers < MaxTimers

\* the content update_annotations was sent for the tab's annotation, if any
storedAfter(files, tab) ==
  With(filter(files, LAMBDA f : f.anno_path = tab.annoPath), LAMBDA sent :
    IF sent = <<>> THEN tab.stored
    ELSE IF \E k \in DOMAIN sent : sent[k].content = tab.content
      THEN tab.content
    ELSE sent[1].content)

\* the setTabs updater of handleCloseTab, with the activeTabId it closed over
closeTab(a, annoPath, activeTabId) ==
  With(filter(a.tabs, LAMBDA t : t.annoPath # annoPath), LAMBDA kept :
    [a EXCEPT !.tabs = kept,
              !.activeTabId =
                IF activeTabId = annoPath /\ Len(kept) > 0
                  THEN kept[1].annoPath
                ELSE IF Len(kept) = 0 THEN Null
                ELSE @,
              !.closed = IF Len(kept) < Len(a.tabs) THEN @ \cup {annoPath}
                         ELSE @])

\* the lines of handleSave or handleSaveAll after an update_annotations
\* that resolved
updateResolved(a, call) ==
  showStatus(
    [a EXCEPT !.tabs =
       [k \in DOMAIN a.tabs |->
          IF call.handler = "handleSaveAll"
               \/ a.tabs[k].annoPath = call.activeTabId
            THEN [a.tabs[k] EXCEPT !.modified = FALSE,
                                   !.stored = storedAfter(call.files, a.tabs[k])]
            ELSE a.tabs[k]]],
    "success",
    IF call.handler = "handleSaveAll"
      THEN <<"Saved ">> \o Count(Len(call.files)) \o <<" file(s)">>
      ELSE <<"Saved successfully">>)

\* a catch block that went on as the try block does after its await
updateRejectedAsResolved(a, call, error) ==
  [updateResolved(a, call) EXCEPT
     !.status = [type |-> "error", message |-> <<"Save failed: ", error>>]]

\* the catch block of handleSave or handleSaveAll
updateRejected(a, call, error) ==
  showStatus(a, "error",
    IF call.handler = "handleSaveAll"
      THEN <<"Bulk save failed: ", error>>
      ELSE <<"Save failed: ", error>>)

AppInit ==
  /\ text = <<>>
  /\ lineNumber = 1
  /\ parsed = NotCalled
  /\ parsedExt = NotCalled
  /\ formatted = NotCalled
  /\ reformatted = NotCalled
  /\ payloadRun = Idle
  /\ parsedSimple = NotCalled
  /\ markers = NotCalled
  /\ \E build \in Builds :
       app = [mounted |-> TRUE, build |-> build, tabs |-> <<>>,
              activeTabId |-> Null, status |-> Ready, timers |-> 0,
              calls |-> <<>>, cleaned |-> {}, closed |-> {}]

Rest ==
  UNCHANGED <<text, lineNumber, parsed, parsedExt, formatted, reformatted,
              payloadRun, parsedSimple, markers>>

\* handleDump up to its await, from a file dialog or a drop
Dump ==
  /\ Len(app.calls) < MaxPending
  /\ app' = showStatus(
       [app EXCEPT !.calls =
          Append(@, Call("dump_annotations", "handleDump", <<>>, Null, Null))],
       "loading", <<"Dumping annotations...">>)
  /\ Rest

\* dump_annotations resolves: the rest of the try block of handleDump
DumpResolves ==
  \E k \in DOMAIN app.calls, results \in DumpResults :
    /\ app.calls[k].command = "dump_annotations"
    /\ Len(app.tabs) + Len(results) <= MaxTabs
    /\ TimerFree(app)
    /\ app' = showStatus(
         [app EXCEPT !.calls = Without(@, k),
                     !.tabs = @ \o newTabs(results),
                     !.activeTabId =
                       IF Len(results) > 0 THEN results[1].anno_path ELSE @],
         "success",
         <<"Dumped ">> \o Count(Len(results)) \o <<" file(s)">>)
    /\ Rest

\* dump_annotations rejects: the catch block of handleDump
DumpRejects ==
  \E k \in DOMAIN app.calls, error \in Errors :
    /\ app.calls[k].command = "dump_annotations"
    /\ TimerFree(app)
    /\ app' = showStatus([app EXCEPT !.calls = Without(@, k)],
                         "error", <<"Dump failed: ", error>>)
    /\ Rest

\* onClick of a tab: setActiveTabId(tab.annoPath)
SelectTab ==
  \E k \in DOMAIN app.tabs :
    /\ app' = [app EXCEPT !.activeTabId = app.tabs[k].annoPath]
    /\ Rest

\* handleEditorChange(value): the editor of the active tab changed its text
EditorChange ==
  \E value \in Contents :
    /\ activeTab(app).present
    /\ value # activeTab(app).value.content
    /\ app.activeTabId # Null
    /\ app' = [app EXCEPT !.tabs =
         [k \in DOMAIN @ |->
            IF @[k].annoPath = app.activeTabId
              THEN [@[k] EXCEPT !.content = value, !.modified = TRUE]
              ELSE @[k]]]
    /\ Rest

\* handleSave up to its await, from the button or Ctrl+S
Save ==
  /\ activeTab(app).present
  /\ Len(app.calls) < MaxPending
  /\ app' = showStatus(
       [app EXCEPT !.calls =
          Append(@, Call("update_annotations", "handleSave",
                         <<fileOf(activeTab(app).value)>>, Null,
                         app.activeTabId))],
       "loading", <<"Updating annotations...">>)
  /\ Rest

\* handleSaveAll up to its await
SaveAll ==
  /\ filter(app.tabs, LAMBDA t : t.modified) # <<>>
  /\ Len(app.calls) < MaxPending
  /\ app' = With(filter(app.tabs, LAMBDA t : t.modified), LAMBDA modifiedTabs :
       showStatus(
         [app EXCEPT !.calls =
            Append(@, Call("update_annotations", "handleSaveAll",
                           [k \in DOMAIN modifiedTabs |-> fileOf(modifiedTabs[k])],
                           Null, Null))],
         "loading",
         <<"Saving ">> \o Count(Len(modifiedTabs)) \o <<" file(s)...">>))
  /\ Rest

\* update_annotations resolves
UpdateResolves ==
  \E k \in DOMAIN app.calls :
    /\ app.calls[k].command = "update_annotations"
    /\ TimerFree(app)
    /\ app' = updateResolved([app EXCEPT !.calls = Without(@, k)], app.calls[k])
    /\ Rest

\* update_annotations rejects
UpdateRejects ==
  \E k \in DOMAIN app.calls, error \in Errors :
    /\ app.calls[k].command = "update_annotations"
    /\ TimerFree(app)
    /\ app' = updateRejected([app EXCEPT !.calls = Without(@, k)],
                             app.calls[k], error)
    /\ Rest

\* the close button of a tab: handleCloseTab(tab.annoPath), which awaits
\* cleanup_annotation where annotations are files and closes at once where
\* they are in memory
CloseTab ==
  \E k \in DOMAIN app.tabs :
    /\ \/ /\ app.build = "files"
          /\ Len(app.calls) < MaxPending
          /\ app' = [app EXCEPT
               !.calls = Append(@, Call("cleanup_annotation", "handleCloseTab",
                                        <<>>, app.tabs[k].annoPath,
                                        app.activeTabId)),
               !.cleaned = @ \cup {app.tabs[k].annoPath}]
       \/ /\ app.build = "memory"
          /\ app' = closeTab(app, app.tabs[k].annoPath, app.activeTabId)
    /\ Rest

\* cleanup_annotation settles, resolved or rejected: setTabs of handleCloseTab
CleanupSettles ==
  \E k \in DOMAIN app.calls :
    /\ app.calls[k].command = "cleanup_annotation"
    /\ app' = closeTab([app EXCEPT !.calls = Without(@, k)],
                       app.calls[k].annoPath, app.calls[k].activeTabId)
    /\ Rest

\* Ctrl+W: if (activeTabId) handleCloseTab(activeTabId)
CtrlW ==
  /\ app.build = "memory"
  /\ app.activeTabId # Null
  /\ app' = closeTab(app, app.activeTabId, app.activeTabId)
  /\ Rest

\* Ctrl+Shift+W: setTabs([]); setActiveTabId(null)
CtrlShiftW ==
  /\ app.build = "memory"
  /\ app' = [app EXCEPT
       !.tabs = <<>>,
       !.activeTabId = Null,
       !.closed = @ \cup {app.tabs[k].annoPath : k \in DOMAIN app.tabs}]
  /\ Rest

\* a timer of showStatus runs: setStatus({ type: 'idle', message: 'Ready' })
StatusTimeout ==
  /\ app.timers > 0
  /\ app' = [app EXCEPT !.status = Ready, !.timers = @ - 1]
  /\ Rest

AppNext ==
  \/ Dump \/ DumpResolves \/ DumpRejects
  \/ SelectTab \/ EditorChange
  \/ Save \/ SaveAll \/ UpdateResolves \/ UpdateRejects
  \/ CtrlW \/ CtrlShiftW \/ CloseTab \/ CleanupSettles
  \/ StatusTimeout

AppSpec == AppInit /\ [][AppNext]_vars

(***************************************************************************)
(* Properties of the dispatch entry points and of the formatter.           *)
(***************************************************************************)

NodeKinds ==
  {"comment", "trackName", "text", "motion", "rotation", "iframe",
   "payload_instruction"}

\* the separator and the value of every parameter item, in input order
ItemTokens(items) ==
  [k \in 1..(2 * Len(items)) |->
     IF k % 2 = 1 THEN items[(k + 1) \div 2].separator
     ELSE items[k \div 2].value]

\* the tokens of the instruction sub-node, in input order
InstructionTokens(instruction) ==
  IF ~instruction.present THEN <<>>
  ELSE <<instruction.prefix, instruction.name>>
         \o (IF instruction.parameters.present
             THEN ItemTokens(instruction.parameters.items) ELSE <<>>)

\* the fields and whitespace tokens of a node, in the order they were parsed
NodeTokens(node) ==
  CASE node.kind = "comment" ->
         <<node.space0First, node.hash, node.space0HashToComment, node.comment,
           node.space0AfterComment>>
    [] node.kind = "trackName" ->
         <<node.space0First, node.literal, node.space0LiteralToName, node.name,
           node.space0AfterName>>
    [] node.kind = "text" ->
         <<node.space0First, node.time, node.space1TimeToText, node.text,
           node.space0AfterText>>
    [] node.kind = "motion" ->
         <<node.space0First, node.time, node.space1TimeToEvent, node.event,
           node.space1EventToX, node.x, node.space1XToY, node.y,
           node.space1YToZ, node.z, node.space0AfterZ>>
    [] node.kind = "rotation" ->
         <<node.space0First, node.time, node.space1TimeToEvent, node.event,
           node.space1EventToDegrees, node.degrees, node.space0AfterDegrees>>
    [] node.kind = "iframe" ->
         <<node.space0First, node.time, node.space1TimeToEvent, node.event,
           node.json, node.space0AfterJson>>
    [] node.kind = "payload_instruction" ->
         <<node.space0First, node.time, node.space1TimeToEvent, node.event,
           node.dot>> \o InstructionTokens(node.instruction)

\* the positions, in NodeTokens, of the tokens parseNumberField produced
NumberSteps(node) ==
  CASE node.kind = "rotation" -> {2, 6}
    [] node.kind = "motion" -> {2, 6, 8, 10}
    [] node.kind \in {"text", "iframe", "payload_instruction"} -> {2}
    [] OTHER -> {}

\* C1 (totality): whatever the text (empty, whitespace only, malformed,
\* unbalanced brackets or quotes) and the line number, parseHkannoLine and
\* parseHkannoLineExt return a node of one of the seven kinds; no call is
\* left by an exception.
C1_Totality ==
  /\ parsed.called => parsed.node.kind \in NodeKinds
  /\ parsedExt.called => parsedExt.node.kind \in NodeKinds

\* both entry points returned on an iframe line whose JSON is cut short
C1_Witness ==
  /\ parsed.called
  /\ parsedExt.called
  /\ parsedExt.node.kind = "iframe"
  /\ parsedExt.node.event.present
  /\ startsWith(text, <<"0", ".", "5", " ">> \o LitIFrame \o <<"{">>)
  /\ parsedExt.node.jsonParseError.present
  /\ parsed.node.kind = "text"

\* the span of a present token against the cursor before and after its step
SpanOK(tok, before, after) ==
  tok.present =>
    /\ tok.pos.line = lineNumber
    /\ tok.pos.startColumn >= 1
    /\ tok.pos.startColumn = before + 1
    /\ tok.pos.endColumn - tok.pos.startColumn = after - before

SpansOK(call) ==
  call.called =>
    LET toks == NodeTokens(call.node)
        cs == call.cursors
    IN /\ Len(cs) = Len(toks) + 1
       /\ \A k \in 1..Len(toks) : SpanOK(toks[k], cs[k], cs[k + 1])
       /\ call.node.kind = "payload_instruction"
            /\ call.node.instruction.present
            /\ call.node.instruction.parameters.present
          => SpanOK(call.node.instruction.parameters, cs[8], cs[Len(cs)])

\* C2 (span consistency): in the node a parse call returns, every present
\* field and whitespace token has line = the lineNumber passed in,
\* startColumn >= 1 (the 0-based cursor + 1), and endColumn - startColumn =
\* the number of characters the cursor advanced while producing the token.
C2_SpanConsistency == SpansOK(parsed) /\ SpansOK(parsedExt)

\* a motion line on the last line number with every field and a trailing run
C2_Witness ==
  /\ parsed.called
  /\ lineNumber = MaxLineNumber
  /\ parsed.node.kind = "motion"
  /\ parsed.node.time.present
  /\ parsed.node.space1EventToX.present
  /\ parsed.node.z.present
  /\ parsed.node.space0AfterZ.present
  /\ parsed.node.z.pos.startColumn > parsed.node.y.pos.endColumn

\* C3 (idempotent formatting): formatting the formatted text again gives the
\* formatted text, also when a numeric field came from a malformed numeral
\* such as a bare sign.
C3_Idempotent == reformatted.called => reformatted.text = formatted.text

\* C4 (no partial commit): where parseNumberField starts on a "+" or "-"
\* that no digit follows, the field is absent and the cursor stays on the
\* sign, so the next field parser starts there.
C4_SignNotCommitted ==
  \A call \in {parsed, parsedExt} :
    call.called =>
      \A k \in NumberSteps(call.node) :
        /\ IsSign(CharAt(text, call.cursors[k]))
        /\ ~IsDigit(CharAt(text, call.cursors[k] + 1))
        => /\ ~NodeTokens(call.node)[k].present
           /\ call.cursors[k + 1] = call.cursors[k]

\* optional sign, digits, optional "." + digits, optional e/E + optional
\* sign + digits
StrictNumeral(str) ==
  LET a == IF IsSign(CharAt(str, 0)) THEN 1 ELSE 0
      b == SkipDigits(str, a)
      c == IF CharAt(str, b) = "." THEN SkipDigits(str, b + 1) ELSE b
      x == IF IsSign(CharAt(str, c + 1)) THEN c + 2 ELSE c + 1
      d == IF CharAt(str, c) \in {"e", "E"} THEN SkipDigits(str, x) ELSE c
  IN /\ b > a
     /\ CharAt(str, b) = "." => c > b + 1
     /\ CharAt(str, c) \in {"e", "E"} => d > x
     /\ d = Len(str)

IsLetter(c) ==
  \E k \in DOMAIN LowerLetters : c \in {LowerLetters[k], UpperLetters[k]}

\* C5 (strict numerals): a numeric field is present only if the text it
\* consumed matches the strict literal grammar, so holds a digit run; a text
\* line that starts with a letter has its time absent and its whole word in
\* the text field.
C5_StrictNumerals ==
  \A call \in {parsed, parsedExt} :
    call.called =>
      /\ \A k \in NumberSteps(call.node) :
           NodeTokens(call.node)[k].present =>
             StrictNumeral(Slice(text, call.cursors[k], call.cursors[k + 1]))
      /\ call.node.kind = "text" /\ IsLetter(CharAt(text, 0))
         => /\ ~call.node.time.present
            /\ call.node.text.present
            /\ call.node.text.pos.startColumn = 1

\* the kind the ordered predicates of the extended dispatch select; the two
\* prefix predicates look past the leading whitespace of the line
ExtKindOf(line) ==
  IF includes(toLowerCase(line), toLowerCase(LitIFrame)) THEN "iframe"
  ELSE IF includes(toLowerCase(line), <<"p", "i", "e">>)
  THEN "payload_instruction"
  ELSE IF startsWith(trimStart(line), <<"#">>) THEN "comment"
  ELSE IF startsWith(toLowerCase(trimStart(line)), toLowerCase(LitTrackName))
  THEN "trackName"
  ELSE IF includes(toLowerCase(line), LitAnimRotation) THEN "rotation"
  ELSE IF includes(toLowerCase(line), LitAnimMotion) THEN "motion"
  ELSE "text"

NoExtKeyword(line) ==
  /\ ~includes(toLowerCase(line), toLowerCase(LitIFrame))
  /\ ~includes(toLowerCase(line), <<"p", "i", "e">>)

\* C7 (lenient dispatch): on a line that contains neither
\* specialframes_invincible nor pie, in any case, parseHkannoLine and
\* parseHkannoLineExt return equal nodes; on every line parseHkannoLine
\* returns a comment, trackName, rotation, motion or text node.
C7_LenientIsRestriction ==
  /\ parsed.called =>
       parsed.node.kind \in {"comment", "trackName", "rotation", "motion", "text"}
  /\ parsed.called /\ parsedExt.called /\ NoExtKeyword(text)
     => parsed.node = parsedExt.node

\* both entry points returned on a line that holds animmotion and animrotation
C7_Witness ==
  /\ parsed.called
  /\ parsedExt.called
  /\ NoExtKeyword(text)
  /\ includes(toLowerCase(text), LitAnimMotion)
  /\ parsed.node.kind = "rotation"
  /\ parsedExt.node.kind = "rotation"

\* the numerals of the lines <time>animrotation<degrees>
TightNumerals == {<<"0", ".", "5">>, <<"-", "9", "0">>, <<"9", "0">>}

\* the node of the line, against that of the same line with the spaces
TightRotationOK(node, time, degrees) ==
  LET spaced == parseAnimRotationLine(
                  time \o <<" ">> \o LitAnimRotation \o <<" ">> \o degrees,
                  lineNumber)
  IN /\ node.kind = "rotation"
     /\ node.time.present /\ node.event.present /\ node.degrees.present
     /\ spaced.time.present /\ spaced.event.present /\ spaced.degrees.present
     /\ node.time.value = spaced.time.value
     /\ node.event.value = spaced.event.value
     /\ node.degrees.value = spaced.degrees.value
     /\ ~node.space1TimeToEvent.present
     /\ ~node.space1EventToDegrees.present
     /\ node.time.pos.startColumn = 1
     /\ node.event.pos.startColumn = node.time.pos.endColumn
     /\ node.degrees.pos.startColumn = node.event.pos.endColumn
     /\ node.degrees.pos.endColumn = Len(text) + 1

\* C8 (missing mandatory whitespace): on a line <time>animrotation<degrees>
\* without whitespace, time, event and degrees are present with the values
\* they have on the spaced line, both mandatory whitespace tokens are
\* absent, and each field starts at the column where the previous one ended.
C8_MissingSpaceKeepsFields ==
  \A time \in TightNumerals, degrees \in TightNumerals :
    text = time \o LitAnimRotation \o degrees =>
      /\ parsed.called => TightRotationOK(parsed.node, time, degrees)
      /\ parsedExt.called => TightRotationOK(parsedExt.node, time, degrees)

\* the line -90animrotation90 went through both entry points
C8_Witness ==
  /\ text = <<"-", "9", "0">> \o LitAnimRotation \o <<"9", "0">>
  /\ parsed.called
  /\ parsedExt.called
  /\ parsed.node.degrees.present
  /\ ~parsed.node.space1EventToDegrees.present

\* the 0-based offsets of the "|" characters of the line
Bars(line) == {k \in 0..(Len(line) - 1) : line[k + 1] = "|"}

\* the offset of the first "|" after offset k, or the end of the line
NextBar(line, k) ==
  IF \E b \in Bars(line) : b > k
  THEN CHOOSE b \in Bars(line) : b > k /\ \A c \in Bars(line) : c > k => b <= c
  ELSE Len(line)

\* the parameters node of a payload node that has one
ParametersOf(call) == call.node.instruction.parameters

HasParameters(call) ==
  /\ call.called
  /\ call.node.kind = "payload_instruction"
  /\ call.node.instruction.present
  /\ ParametersOf(call).present

FirstDot(line, k) == SkipUntil(line, k, {"."})

\* C11 (instruction prefix): a payload_instruction node has an instruction
\* sub-node exactly when the character after the event (the text up to the
\* first ".") and the "." is one of "@", "$", "!"; the prefix then holds
\* that character and the dot is present; otherwise the instruction is
\* absent.
C11_InstructionIffPrefix ==
  parsedExt.called /\ parsedExt.node.kind = "payload_instruction" =>
    LET node == parsedExt.node
        dot == FirstDot(text, parsedExt.cursors[4])
    IN /\ node.instruction.present <=>
            dot < Len(text) /\ CharAt(text, dot + 1) \in {"@", "$", "!"}
       /\ node.instruction.present =>
            /\ node.dot.present
            /\ node.dot.pos.startColumn = dot + 1
            /\ node.instruction.prefix.present
            /\ node.instruction.prefix.value = CharAt(text, dot + 1)
            /\ node.instruction.prefix.pos.startColumn = dot + 2
       /\ node.dot.present => node.dot.pos.startColumn = dot + 1

\* a "!" instruction after an event that leading whitespace precedes
C11_Witness ==
  /\ parsedExt.called
  /\ parsedExt.node.kind = "payload_instruction"
  /\ parsedExt.node.space0First.present
  /\ parsedExt.node.instruction.present
  /\ parsedExt.node.instruction.prefix.value = "!"
  /\ parsedExt.node.instruction.name.present

\* a payload line with a dot that no prefix character follows
C11_WitnessNoPrefix ==
  /\ parsedExt.called
  /\ parsedExt.node.kind = "payload_instruction"
  /\ parsedExt.node.dot.present
  /\ ~parsedExt.node.instruction.present

\* C12 (JSON failure is data): in an iframe node, (a) when text remains
\* after the event position and does not decode, json has a span, its value
\* is undefined and jsonParseError holds a non-empty message; (b) when
\* nothing remains, json and jsonParseError are absent; (c) when the text
\* decodes, json.value is the decoded data and jsonParseError is absent.  A
\* decoded value and a parse error are never both present.
C12_JsonFailureIsData ==
  \A call \in {parsed, parsedExt} :
    call.called /\ call.node.kind = "iframe" =>
      LET node == call.node
          from == call.cursors[5]
          rest == Slice(text, from, SkipUntil(text, from, {"\n"}))
          decoded == JSONparse(rest)
      IN /\ rest = <<>> => ~node.json.present /\ ~node.jsonParseError.present
         /\ rest # <<>> =>
              /\ node.json.present
              /\ node.json.pos = [line |-> lineNumber, startColumn |-> from + 1,
                                  endColumn |-> from + Len(rest) + 1]
              /\ decoded.threw =>
                   /\ node.json.value = UndefinedValue
                   /\ node.jsonParseError.present
                   /\ node.jsonParseError.message # ""
              /\ ~decoded.threw =>
                   /\ node.json.value = decoded.data
                   /\ node.json.value # UndefinedValue
                   /\ ~node.jsonParseError.present
         /\ node.jsonParseError.present =>
              node.json.present /\ node.json.value = UndefinedValue

\* the line 0.5 SpecialFrames_Invincible{x}: text that does not decode
C12_Witness ==
  /\ parsedExt.called
  /\ parsedExt.node.kind = "iframe"
  /\ text = <<"0", ".", "5", " ">> \o LitIFrame \o <<"{", "x", "}">>
  /\ parsedExt.node.json.present
  /\ parsedExt.node.json.value = UndefinedValue
  /\ parsedExt.node.jsonParseError.present

\* the trailing-whitespace token of a node that ends in a rest-of-line field
TrailingSpace(node) ==
  CASE node.kind = "iframe" -> node.space0AfterJson
    [] node.kind = "text" -> node.space0AfterText
    [] node.kind = "comment" -> node.space0AfterComment
    [] node.kind = "trackName" -> node.space0AfterName

\* C13 (trailing whitespace token): on a line without a newline character
\* the trailing-whitespace token of an iframe, text, comment or trackName
\* node is absent, also when the line ends in whitespace: the rest-of-line
\* field before it consumes through the end of the line.
C13_TrailingSpaceAbsent ==
  \A call \in {parsed, parsedExt} :
    /\ call.called
    /\ call.node.kind \in {"iframe", "text", "comment", "trackName"}
    /\ ~includes(text, <<"\n">>)
    => /\ ~TrailingSpace(call.node).present
       /\ call.cursors[Len(call.cursors) - 1] = Len(text)

\* a text line that ends in whitespace
C13_Witness ==
  /\ parsed.called
  /\ parsed.node.kind = "text"
  /\ text # <<>> /\ IsSpace(text[Len(text)])
  /\ ~includes(text, <<"\n">>)
  /\ parsed.node.text.present
  /\ parsed.node.text.pos.endColumn = Len(text) + 1
  /\ ~parsed.node.space0AfterText.present

\* C14 (optional whitespace dropped): the formatted form of a line does not
\* begin with whitespace, and does not end with whitespace when the input
\* line ended in whitespace (its trailing padding).
C14_PaddingDropped ==
  formatted.called /\ ~includes(text, <<"\n">>) /\ formatted.text # <<>> =>
    /\ ~IsSpace(formatted.text[1])
    /\ text # <<>> /\ IsSpace(text[Len(text)])
       => ~IsSpace(formatted.text[Len(formatted.text)])

\* a required field that holds a number, and one that holds a string
Num(tok) == [tok |-> tok, numeric |-> TRUE]
Str(tok) == [tok |-> tok, numeric |-> FALSE]

\* the required fields of a rotation, motion or text node, in order
RequiredFields(node) ==
  CASE node.kind = "rotation" ->
         <<Num(node.time), Str(node.event), Num(node.degrees)>>
    [] node.kind = "motion" ->
         <<Num(node.time), Str(node.event), Num(node.x), Num(node.y),
           Num(node.z)>>
    [] node.kind = "text" -> <<Num(node.time), Str(node.text)>>

\* the rendering of a field value: a number as toFixed(6), a string as it is
Rendered(field) ==
  IF field.numeric THEN toFixed6(field.tok.value) ELSE field.tok.value

RECURSIVE OneSpaceBetween(_)
\* the texts, each two consecutive ones separated by exactly one space
OneSpaceBetween(parts) ==
  IF Len(parts) = 0 THEN <<>>
  ELSE IF Len(parts) = 1 THEN parts[1]
  ELSE parts[1] \o <<" ">> \o OneSpaceBetween(Tail(parts))

\* C15 (mandatory whitespace collapse): the formatted form of a rotation,
\* motion or text line is its present required values, each two consecutive
\* ones separated by exactly one space, whatever whitespace run (two or more
\* characters, one, none) stood between them in the input.
C15_OneSpaceBetweenValues ==
  /\ parsed.called
  /\ formatted.called
  /\ ~includes(text, <<"\n">>)
  /\ parsed.node.kind \in {"rotation", "motion", "text"}
  => LET present == SelectSeq(RequiredFields(parsed.node),
                              LAMBDA f : f.tok.present)
         shown == [k \in 1..Len(present) |-> Rendered(present[k])]
     IN /\ formatted.text = OneSpaceBetween(shown)
        /\ \A k \in 1..Len(shown) :
             shown[k] # <<>> /\ ~IsSpace(shown[k][1])
        /\ \A k \in 1..(Len(shown) - 1) : ~IsSpace(shown[k][Len(shown[k])])

\* a motion line with two spaces after the time and none after the event
C15_Witness ==
  /\ parsed.called
  /\ formatted.called
  /\ parsed.node.kind = "motion"
  /\ parsed.node.time.present
  /\ parsed.node.space1TimeToEvent.present
  /\ parsed.node.space1TimeToEvent.rawText = <<" ", " ">>
  /\ parsed.node.event.present
  /\ ~parsed.node.space1EventToX.present
  /\ parsed.node.x.present
  /\ parsed.node.z.present

\* an optional "-", digits, ".", and exactly six digits
IsFixed6(str) ==
  LET a == IF CharAt(str, 0) = "-" THEN 1 ELSE 0
      b == SkipDigits(str, a)
  IN /\ b > a
     /\ CharAt(str, b) = "."
     /\ SkipDigits(str, b + 1) = Len(str)
     /\ Len(str) = b + 7

\* C16 (numeric precision): every numeric field the lenient parser reports
\* as present is rendered in the formatted line as a fixed-point decimal
\* with exactly six digits after the point, never in scientific notation
\* and never as a token that is no number.
C16_SixFractionDigits ==
  /\ parsed.called
  /\ formatted.called
  /\ ~includes(text, <<"\n">>)
  /\ parsed.node.kind \in {"rotation", "motion", "text"}
  => LET present == SelectSeq(RequiredFields(parsed.node),
                              LAMBDA f : f.tok.present)
         shown == [k \in 1..Len(present) |-> Rendered(present[k])]
     IN /\ formatted.text = OneSpaceBetween(shown)
        /\ \A k \in 1..Len(present) :
             present[k].numeric => IsFixed6(shown[k])

\* C17 (line count): formatHkannoText returns, for every text, as many
\* "\n"-separated lines as the text has, and its line k is what formatting
\* line k of the text alone gives.
C17_LineCountPreserved ==
  formatted.called =>
    LET lines == splitLines(text)
        out == splitLines(formatted.text)
    IN /\ Len(out) = Len(lines)
       /\ Len(lines) = Cardinality({k \in 1..Len(text) : text[k] = "\n"}) + 1
       /\ \A k \in 1..Len(lines) :
            /\ ~includes(lines[k], <<"\n">>)
            /\ out[k] = formatHkannoText(lines[k])

\* a document of two lines that both hold text, formatted
C17_Witness ==
  /\ formatted.called
  /\ Len(splitLines(text)) = 2
  /\ splitLines(text)[1] # <<>>
  /\ splitLines(text)[2] # <<>>
  /\ splitLines(formatted.text)[1] # splitLines(text)[1]
  /\ splitLines(formatted.text)[2] # <<>>

\* C18 (termination): a call of parsePayloadInstructionLine ends.  A
\* primitive never moves the cursor back nor past the end of the line, and
\* every iteration of the parameter loop consumes at least one character,
\* so the loop makes at most as many iterations as the line has characters.
C18_ParseTerminates ==
  /\ [](payloadRun.pc \in {"loop", "done"} =>
          /\ payloadRun.iterations <= payloadRun.i - payloadRun.paramStart
          /\ payloadRun.iterations <= Len(text)
          /\ payloadRun.i <= Len(text)
          /\ \A k \in 1..(Len(payloadRun.cursors) - 1) :
               payloadRun.cursors[k] <= payloadRun.cursors[k + 1])
  /\ <>(payloadRun.pc = "done")

\* the loop ended after three iterations, two of them on an empty value
C18_Witness ==
  /\ payloadRun.pc = "done"
  /\ payloadRun.iterations = 3
  /\ payloadRun.i = payloadRun.paramStart + 3
  /\ payloadRun.i = Len(text)

(***************************************************************************)
(* Properties of the simple parser.                                        *)
(***************************************************************************)

\* the index one past the verb token of a result that has one
VerbEnd(res) ==
  res.tokenPositions.value.verb.value.startColumn - 1
    + res.tokenPositions.value.verb.value.length

\* what follows the verb and the whitespace after it
AfterVerb(line, res) ==
  Slice(trimmed(line), SkipSpaces(trimmed(line), VerbEnd(res)),
        Len(trimmed(line)))

\* rest begins with a numeric literal: some characters that denote a
\* finite number
LiteralFollows(rest) ==
  \E n \in 1..Len(rest) : Number(SubSeq(rest, 1, n)).t = "fin"

\* the line has a finite time token and the verb animrotation, in any case
IsRotationLine(res) ==
  /\ res.time.present
  /\ res.eventName.present
  /\ toLowerCase(res.eventName.value) = LitAnimRotation

\* C19: on a line with a finite time token and the verb animrotation (in any
\* case) the simple parser returns type 'rotation', with exactly one arg, only
\* when a numeric literal follows the verb; when none follows (end of line or
\* non-numeric text) it returns type 'invalid' with the error 'animrotation
\* missing numeric angle'.
C19_RotationNeedsLiteral ==
  parsedSimple.called /\ IsRotationLine(parsedSimple.res) =>
    LET res == parsedSimple.res
        rest == AfterVerb(text, res)
    IN  /\ res.type \in {"rotation", "invalid"}
        /\ res.type = "rotation" =>
             /\ res.args.present
             /\ Len(res.args.value) = 1
             /\ LiteralFollows(rest)
        /\ ~LiteralFollows(rest) =>
             /\ res.type = "invalid"
             /\ \E k \in 1..Len(res.errors) : res.errors[k] = ErrMissingAngle

\* C20: on a line with the verb animmotion (in any case) args holds the
\* numeric literals that follow the verb, in order and at most three;
\* argPositions has one entry per arg, whose length is the non-zero number of
\* characters of that literal, so that non-numeric text contributes no arg.
C20_MotionArgsAreLiterals ==
  parsedSimple.called /\ parsedSimple.res.type = "motion" =>
    LET res == parsedSimple.res
        line == trimmed(text)
    IN  /\ toLowerCase(res.eventName.value) = LitAnimMotion
        /\ res.args.present
        /\ res.tokenPositions.value.argPositions.present
        /\ LET args == res.args.value
               argPositions == res.tokenPositions.value.argPositions.value
               Start(k) == argPositions[k].startColumn - 1
               End(k) == Start(k) + argPositions[k].length
           IN  /\ Len(args) <= 3
               /\ Len(argPositions) = Len(args)
               /\ \A k \in 1..Len(args) :
                    /\ argPositions[k].length > 0
                    /\ Start(k) >= VerbEnd(res)
                    /\ End(k) <= Len(line)
                    /\ args[k].t = "fin"
                    /\ Number(Slice(line, Start(k), End(k))) = args[k]
               /\ \A k \in 1..(Len(args) - 1) : End(k) <= Start(k + 1)

(***************************************************************************)
(* Properties of the cursor and of the tokens' spans.                      *)
(***************************************************************************)

\* C22: within one parse call the cursor i starts at 0, is only ever
\* increased, never reset or decreased, and 0 <= i <= len holds after every
\* primitive, the dot, prefix and separator steps of the payload parser
\* included.
C22_CursorDiscipline ==
  \A call \in {parsed, parsedExt} :
    call.called /\ call.node.kind \in NodeKinds =>
      /\ Len(call.cursors) >= 1
      /\ call.cursors[1] = 0
      /\ \A k \in 1..Len(call.cursors) :
           call.cursors[k] >= 0 /\ call.cursors[k] <= Len(text)
      /\ \A k \in 1..(Len(call.cursors) - 1) :
           call.cursors[k] <= call.cursors[k + 1]

\* a payload line with two parameters: every inline step and the primitives
\* of two loop iterations moved the cursor, up to the end of the line
C22_Witness ==
  /\ parsedExt.called
  /\ parsedExt.node.kind = "payload_instruction"
  /\ text = <<"0", ".", "3", " ", "p", "i", "e", ".", "$", "|", "a", "|", "a">>
  /\ parsedExt.cursors[Len(parsedExt.cursors)] = Len(text)
  /\ Cardinality({parsedExt.cursors[k] : k \in 1..Len(parsedExt.cursors)}) >= 9

\* the present tokens of a node, in field order
PresentTokens(node) == SelectSeq(NodeTokens(node), LAMBDA tok : tok.present)

\* C27: in the node any node parser returns, the present tokens taken in field
\* order tile a prefix of the line without gaps or overlaps: the first has
\* startColumn 1, every later one starts at the endColumn of the one before,
\* none is empty, and the last ends where the cursor stopped, so that every
\* character the cursor passed is owned by exactly one token.
C27_TokensTilePrefix ==
  \A call \in {parsed, parsedExt} :
    call.called /\ call.node.kind \in NodeKinds =>
      LET toks == PresentTokens(call.node)
          last == call.cursors[Len(call.cursors)]
      IN  /\ Len(toks) > 0 => toks[1].pos.startColumn = 1
          /\ \A k \in 1..Len(toks) :
               /\ toks[k].pos.startColumn < toks[k].pos.endColumn
               /\ toks[k].pos.endColumn <= Len(text) + 1
          /\ \A k \in 1..(Len(toks) - 1) :
               toks[k + 1].pos.startColumn = toks[k].pos.endColumn
          /\ IF Len(toks) = 0 THEN last = 0
             ELSE toks[Len(toks)].pos.endColumn = last + 1

\* a payload line whose nine present tokens (leading space, event, dot,
\* prefix, name, two separators and two values) cover the whole line
C27_Witness ==
  /\ parsedExt.called
  /\ parsedExt.node.kind = "payload_instruction"
  /\ text = <<" ", "p", "i", "e", ".", "!", "N", "|", "a", "|", "a">>
  /\ Len(PresentTokens(parsedExt.node)) = 9
  /\ PresentTokens(parsedExt.node)[9].pos.endColumn = Len(text) + 1

(***************************************************************************)
(* Properties of the formatter's output against its input.                 *)
(***************************************************************************)

RECURSIVE WordsFrom(_, _)
\* the maximal runs of non-whitespace characters of line, from index i on
WordsFrom(line, i) ==
  LET start == SkipSpaces(line, i)
      end == SkipToken(line, start)
  IN  IF start >= Len(line) THEN <<>>
      ELSE <<Slice(line, start, end)>> \o WordsFrom(line, end)

\* a word none of whose characters can belong to a numeral's digits
Textual(word) ==
  \A k \in 1..Len(word) : ~IsDigit(word[k]) /\ word[k] \notin {".", "+", "-"}

\* line without its whitespace
Squeeze(line) == SelectSeq(line, LAMBDA c : ~IsSpace(c))

RECURSIVE AppearInOrder(_, _, _)
\* the words occur in hay one after the other, from index from on
AppearInOrder(words, hay, from) ==
  IF Len(words) = 0 THEN TRUE
  ELSE LET w == words[1]
           at == {p \in from..(Len(hay) - Len(w)) :
                    SubSeq(hay, p + 1, p + Len(w)) = w}
       IN  /\ at # {}
           /\ AppearInOrder(Tail(words), hay,
                            (CHOOSE p \in at : \A q \in at : p <= q) + Len(w))

\* C28: for every input line, every non-whitespace word of the line that is
\* not a numeric literal still appears, in order, in the line formatHkannoText
\* produces for it: formatting renormalises whitespace and numerals only and
\* deletes no annotation text.  (Words are compared with the whitespace of
\* the output removed, and only words without any numeral character are
\* required to survive.)
C28_ContentPreserved ==
  formatted.called =>
    LET lines == splitLines(text)
        outs == splitLines(formatted.text)
    IN  /\ Len(outs) = Len(lines)
        /\ \A k \in 1..Len(lines) :
             AppearInOrder(SelectSeq(WordsFrom(lines[k], 0), Textual),
                           Squeeze(outs[k]), 0)

(***************************************************************************)
(* Properties of the diagnostics.                                          *)
(***************************************************************************)

\* the node the diagnostics parsed for line k of the model
DiagNode(k) == parseHkannoLineExt(getLinesContent(text)[k], k)

\* the markers set on line k
MarkersOn(k) == SelectSeq(markers.list, LAMBDA m : m.startLineNumber = k)

\* the 'expects N parameters' markers of line k
ArityMarkers(k) ==
  SelectSeq(MarkersOn(k), LAMBDA m : "expected" \in DOMAIN m.message)

\* C23: for a payload_instruction node whose prefix is '$' (custom) or '!'
\* (async), updateHkannoDiagnostics never emits the 'expects N parameters'
\* error marker, whatever the instruction name and the parameter count.
C23_ArityOnlyForNative ==
  markers.called =>
    \A k \in 1..Len(getLinesContent(text)) :
      LET node == DiagNode(k)
      IN  /\ node.kind = "payload_instruction"
          /\ node.instruction.present
          /\ node.instruction.prefix.value \in {"$", "!"}
          => ArityMarkers(k) = <<>>

\* the declared arity of the native instruction of that name, in any case
NativeArities(name) ==
  {expectedOf(PIE_NATIVE_INSTRUCTIONS[d].snippet) :
     d \in {d \in DOMAIN PIE_NATIVE_INSTRUCTIONS :
              toUpperCase(PIE_NATIVE_INSTRUCTIONS[d].name) = toUpperCase(name)}}

\* C24: for a native instruction (prefix '@') of declared arity n, the
\* 'expects n parameters' error is emitted if and only if the number of
\* parameter items of the parsed node is less than n; an item whose value is
\* absent counts as a supplied parameter.
C24_ArityCountsItems ==
  markers.called =>
    \A k \in 1..Len(getLinesContent(text)) :
      LET node == DiagNode(k)
          inst == node.instruction
      IN  /\ node.kind = "payload_instruction"
          /\ inst.present
          /\ inst.prefix.value = "@"
          /\ inst.name.present
          => \A n \in NativeArities(inst.name.value) :
               LET items == IF inst.parameters.present
                            THEN inst.parameters.items ELSE <<>>
               IN  (\E j \in DOMAIN ArityMarkers(k) :
                      /\ ArityMarkers(k)[j].message.expected = n
                      /\ ArityMarkers(k)[j].severity = "Error")
                   <=> Len(items) < n

\* C25: for every iframe node the 'JSON parse error' marker is emitted iff
\* jsonParseError is present, the 'JSON is missing or invalid' marker iff the
\* value is absent and no parse error was captured; the two never come
\* together, exactly one of them comes whenever the JSON value is absent, and
\* unsupported-key warnings come only when a JSON value is present.
C25_IFrameJsonMarkers ==
  markers.called =>
    \A k \in 1..Len(getLinesContent(text)) :
      LET node == DiagNode(k)
          ms == MarkersOn(k)
          parseError == \E j \in DOMAIN ms : "message" \in DOMAIN ms[j].message
          missing == \E j \in DOMAIN ms :
                       ms[j].message.template = TemplateJsonMissing
          typo == \E j \in DOMAIN ms : "key" \in DOMAIN ms[j].message
      IN  node.kind = "iframe" =>
            LET valueAbsent ==
                  ~node.json.present \/ node.json.value = UndefinedValue
            IN  /\ parseError <=> node.jsonParseError.present
                /\ missing <=> (valueAbsent /\ ~node.jsonParseError.present)
                /\ ~(parseError /\ missing)
                /\ valueAbsent => (parseError # missing)
                /\ typo => ~valueAbsent

\* the diagnostics of an iframe line whose JSON text does not decode: the
\* parse error marker over the JSON text, and not the 'missing' one
C25_Witness ==
  /\ markers.called
  /\ startsWith(text, <<"0", ".", "5", " ">> \o LitIFrame \o <<"{", "x", "}">>)
  /\ \E j \in DOMAIN markers.list :
       /\ "message" \in DOMAIN markers.list[j].message
       /\ markers.list[j].startColumn = 29
       /\ markers.list[j].endColumn = 32
  /\ \A j \in DOMAIN markers.list :
       markers.list[j].message.template # TemplateJsonMissing

(***************************************************************************)
(* Properties of the App component.                                        *)
(***************************************************************************)

\* the update_annotations calls among the calls in flight
updatesIn(calls) == filter(calls, LAMBDA c : c.command = "update_annotations")

\* C26: when the update_annotations call of handleSave or handleSaveAll
\* rejects, the status becomes an error that carries the failure string of
\* the backend, no update_annotations call is issued in its place, and the
\* tabs keep their content and their modified flags.
C26_SaveFailureLeavesTabs ==
  [][UpdateRejects =>
       /\ app'.status.type = "error"
       /\ \E error \in Errors :
            app'.status.message \in {<<"Save failed: ", error>>,
                                     <<"Bulk save failed: ", error>>}
       /\ Len(updatesIn(app'.calls)) = Len(updatesIn(app.calls)) - 1
       /\ app'.tabs = app.tabs]_vars

\* a save was rejected and the tab it was for is still marked as modified
C26_Witness ==
  /\ app.mounted
  /\ app.status.type = "error"
  /\ app.status.message[1] \in {"Save failed: ", "Bulk save failed: "}
  /\ app.calls = <<>>
  /\ \E k \in DOMAIN app.tabs :
       app.tabs[k].modified /\ app.tabs[k].content # app.tabs[k].stored

\* C29: after any interleaving of editor changes, Save, Save All and the
\* settling of update_annotations, a tab whose modified flag is false holds
\* the content that the dump loaded or that the last successful
\* update_annotations sent for it; an edit made while a save awaits the
\* backend is never marked as saved.
C29_UnmodifiedIsStored ==
  app.mounted =>
    \A k \in DOMAIN app.tabs :
      ~app.tabs[k].modified => app.tabs[k].content = app.tabs[k].stored

\* the annotation paths of the tabs that are open
openPaths(a) == {a.tabs[k].annoPath : k \in DOMAIN a.tabs}

\* C30: activeTabId is null exactly when no tab is open, and otherwise is
\* the annoPath of a tab that is open, after any sequence of dumps,
\* selections, edits, saves, closes and close-all, whatever arrives while a
\* dump or a cleanup is awaited.
C30_ActiveTabIsOpen ==
  app.mounted =>
    /\ app.activeTabId = Null <=> app.tabs = <<>>
    /\ app.activeTabId # Null => app.activeTabId \in openPaths(app)

\* C21: whenever a tab was closed, by its close button, by Ctrl+W or by
\* Ctrl+Shift+W, cleanup_annotation was invoked for its annotation file.
C21_ClosedTabsCleanedUp ==
  app.mounted => app.closed \subseteq app.cleaned

====
